---- MODULE Spec2Model ----
(***************************************************************************)
(* PredictionMarkets: a pari-mutuel YES/NO betting ledger.                 *)
(*                                                                         *)
(* The contract's storage is the state.  Every external function is an     *)
(* action.  A function that calls the token (safeTransferFrom /            *)
(* safeTransfer) is split at that external call: the "Call" action runs    *)
(* the function up to the call and pushes a frame, the "Return" action     *)
(* runs the rest, and TransferFails reverts the whole call.  While a frame *)
(* is open the token may call back into the contract (nested calls).       *)
(***************************************************************************)
EXTENDS Integers, Sequences, FiniteSets, TLC

(* ------------------------------ bounds -------------------------------- *)
MaxMarkets == 1        \* markets created under Spec (calls nest there)
MaxMarketsFlat == 2    \* markets created under SpecFlat (no nested calls)
MaxTime == 2
MaxBets == 3
MaxDepth == 2

(* ------------------------- program constants -------------------------- *)
MAX_FEE_BPS == 1000
BPS_DENOMINATOR == 10000
InitialFeeBps == 200

NOT_ENTERED == "NOT_ENTERED"
ENTERED == "ENTERED"

(* ------------------------------ inputs -------------------------------- *)
Deployer == "owner"
ZeroAddress == "0x0"
Accounts == {"owner", "alice"}
MarketKeys == 0..MaxMarketsFlat
Questions == {"Q"}
DeadlineChoices == 1..MaxTime
BetAmounts == {50, 100}
FeeChoices == {200, 1000, 1001}
InitialLimits == <<50, 50>>
LimitChoices == {<<50, 50>>, <<100, 0>>}
StakeChoices == {0, 100, 300, 600}

VARIABLES
    now,              \* block.timestamp
    owner,            \* Ownable: the owner
    status,           \* ReentrancyGuard: the lock
    marketCount,
    minBetSize,
    maxBetSize,
    platformFeeBps,
    accumulatedFees,
    markets,          \* marketId -> Market (all-zero when never written)
    yesStakes,        \* marketId -> account -> amount
    noStakes,
    claimed,          \* marketId -> account -> BOOLEAN
    custody,          \* token.balanceOf(address(this))
    stack,            \* open calls, each waiting in its external token call
    accepted,         \* history: marketId -> sum of the bets accepted
    paidOut,          \* history: marketId -> sum of the user shares paid
    feesAccrued,      \* history: marketId -> sum of the fees of its claims
    withdrawn,        \* history: sum paid out by withdrawFees
    nBets,            \* history: number of bets accepted
    nClaims,          \* history: marketId -> account -> claims that succeeded
    nResolved,        \* history: marketId -> resolutions that succeeded
    listing,          \* useMarketsList: its state (markets, isLoading, marketCount)
    runs,             \* useMarketsList: the fetch runs in flight
    store,            \* MarketsProvider: its state as of the latest render
    queue,            \* MarketsProvider: state updates set since that render
    returned          \* history: what each claimWinnings call returned

storageVars == <<marketCount, minBetSize, maxBetSize, platformFeeBps,
                 accumulatedFees, markets, yesStakes, noStakes, claimed>>
historyVars == <<accepted, paidOut, feesAccrued, withdrawn, nBets, nClaims,
                 nResolved>>
uiVars == <<listing, runs, store, queue, returned>>
vars == <<now, owner, status, storageVars, custody, stack, historyVars,
          uiVars>>

(* ----------------------------- helpers -------------------------------- *)
RECURSIVE Sum(_, _)
Sum(f, S) ==
    IF S = {} THEN 0
    ELSE LET x == CHOOSE y \in S : TRUE IN f[x] + Sum(f, S \ {x})

NoMarket ==
    [question |-> "", deadline |-> 0, resolved |-> FALSE, outcomeYes |-> FALSE,
     yesPool |-> 0, noPool |-> 0]

\* Everything a revert rolls back: the contract's storage, the lock, the
\* token balance, and the history kept beside them.
Snapshot ==
    [owner |-> owner, status |-> status, marketCount |-> marketCount,
     minBetSize |-> minBetSize, maxBetSize |-> maxBetSize,
     platformFeeBps |-> platformFeeBps, accumulatedFees |-> accumulatedFees,
     markets |-> markets, yesStakes |-> yesStakes, noStakes |-> noStakes,
     claimed |-> claimed, custody |-> custody, accepted |-> accepted,
     paidOut |-> paidOut, feesAccrued |-> feesAccrued,
     withdrawn |-> withdrawn, nBets |-> nBets, nClaims |-> nClaims,
     nResolved |-> nResolved]

Restore(s) ==
    /\ owner' = s.owner
    /\ status' = s.status
    /\ marketCount' = s.marketCount
    /\ minBetSize' = s.minBetSize
    /\ maxBetSize' = s.maxBetSize
    /\ platformFeeBps' = s.platformFeeBps
    /\ accumulatedFees' = s.accumulatedFees
    /\ markets' = s.markets
    /\ yesStakes' = s.yesStakes
    /\ noStakes' = s.noStakes
    /\ claimed' = s.claimed
    /\ custody' = s.custody
    /\ accepted' = s.accepted
    /\ paidOut' = s.paidOut
    /\ feesAccrued' = s.feesAccrued
    /\ withdrawn' = s.withdrawn
    /\ nBets' = s.nBets
    /\ nClaims' = s.nClaims
    /\ nResolved' = s.nResolved

Top == stack[Len(stack)]
Pop == SubSeq(stack, 1, Len(stack) - 1)

Frame(op, sender, id, amount, isYes, to) ==
    [op |-> op, sender |-> sender, id |-> id, amount |-> amount,
     isYes |-> isYes, to |-> to, snap |-> Snapshot]

\* A call that reverts before its external call: nothing is written.
Reverts ==
    UNCHANGED <<now, stack, owner, status, storageVars, custody, historyVars,
                uiVars>>

(* ------------------- the web client: initial state -------------------- *)
\* The two versions of the useMarketsList hook: the one that reads through
\* the wagmi public client, and the one that posts eth_call with fetch.
Hooks == {"publicClient", "fetch"}

\* useState([]), useState(true), useState(0) / useReadContract's data before
\* it arrives (undefined is kept as 0: both are falsy where the hook tests it).
InitialListing(h) ==
    [hook |-> h, markets |-> <<>>, isLoading |-> TRUE, marketCount |-> 0]

\* The demo store keeps amounts in USDC with payouts rounded to 1/100; the
\* model keeps stakes, payouts and balances in hundredths of a USDC, and the
\* pools, which the demo only ever holds in whole USDC, in USDC.
USDC == 100

\* INITIAL_MARKETS, without the descriptive text and the deadline (no
\* operation of the store reads them); the pools in whole USDC.
INITIAL_MARKETS ==
    << [id |-> 1, status |-> "open", outcomeYes |-> FALSE,
        yesPool |-> 45200, noPool |-> 38100],
       [id |-> 2, status |-> "open", outcomeYes |-> FALSE,
        yesPool |-> 78500, noPool |-> 22300],
       [id |-> 3, status |-> "open", outcomeYes |-> FALSE,
        yesPool |-> 125000, noPool |-> 45000],
       [id |-> 4, status |-> "resolved", outcomeYes |-> FALSE,
        yesPool |-> 32000, noPool |-> 41000],
       [id |-> 5, status |-> "open", outcomeYes |-> FALSE,
        yesPool |-> 18500, noPool |-> 22000],
       [id |-> 6, status |-> "open", outcomeYes |-> FALSE,
        yesPool |-> 50000, noPool |-> 25000] >>

\* INITIAL_BETS; an absent payout is 0 and an absent claimed is FALSE, as the
\* store's tests `bet.payout && bet.payout > 0` and `!bet.claimed` read them.
INITIAL_BETS ==
    << [marketId |-> 1, side |-> "yes", stake |-> 50 * USDC, status |-> "open",
        payout |-> 0, claimed |-> FALSE],
       [marketId |-> 3, side |-> "no", stake |-> 25 * USDC, status |-> "open",
        payout |-> 0, claimed |-> FALSE],
       [marketId |-> 4, side |-> "no", stake |-> 30 * USDC, status |-> "won",
        payout |-> 52 * USDC, claimed |-> FALSE],
       [marketId |-> 5, side |-> "yes", stake |-> 40 * USDC, status |-> "open",
        payout |-> 0, claimed |-> FALSE],
       [marketId |-> 6, side |-> "yes", stake |-> 100 * USDC, status |-> "open",
        payout |-> 0, claimed |-> FALSE] >>

INITIAL_PORTFOLIO_BALANCE == 1000 * USDC

\* INITIAL_PORTFOLIO_HISTORY, without the timestamps; marketId 0 is "none".
INITIAL_PORTFOLIO_HISTORY ==
    << [balance |-> 1000 * USDC, action |-> "initial", amount |-> 1000 * USDC,
        marketId |-> 0],
       [balance |-> 950 * USDC, action |-> "bet", amount |-> -50 * USDC,
        marketId |-> 1],
       [balance |-> 925 * USDC, action |-> "bet", amount |-> -25 * USDC,
        marketId |-> 3],
       [balance |-> 895 * USDC, action |-> "bet", amount |-> -30 * USDC,
        marketId |-> 4],
       [balance |-> 947 * USDC, action |-> "claim", amount |-> 52 * USDC,
        marketId |-> 4] >>

\* MarketsProvider's useState calls.
InitialStore ==
    [markets |-> INITIAL_MARKETS, userBets |-> INITIAL_BETS,
     portfolioBalance |-> INITIAL_PORTFOLIO_BALANCE,
     portfolioHistory |-> INITIAL_PORTFOLIO_HISTORY]

\* The page that uses the hook is not open / is open and has just mounted it.
NoListing == listing = "unmounted" /\ runs = <<>>

MountedListing(h) == listing = InitialListing(h) /\ runs = <<>>

\* The demo store is not mounted / has just been mounted.
NoStore == store = "unmounted" /\ queue = <<>> /\ returned = <<>>

MountedStore == store = InitialStore /\ queue = <<>> /\ returned = <<>>

(* ------------------------------- Init --------------------------------- *)
InitChain ==
    /\ now = 1
    /\ owner = Deployer
    /\ status = NOT_ENTERED
    /\ marketCount = 0
    /\ minBetSize = InitialLimits[1]
    /\ maxBetSize = InitialLimits[2]
    /\ platformFeeBps = InitialFeeBps
    /\ accumulatedFees = 0
    /\ markets = [m \in MarketKeys |-> NoMarket]
    /\ yesStakes = [m \in MarketKeys |-> [a \in Accounts |-> 0]]
    /\ noStakes = [m \in MarketKeys |-> [a \in Accounts |-> 0]]
    /\ claimed = [m \in MarketKeys |-> [a \in Accounts |-> FALSE]]
    /\ custody = 0
    /\ stack = <<>>
    /\ accepted = [m \in MarketKeys |-> 0]
    /\ paidOut = [m \in MarketKeys |-> 0]
    /\ feesAccrued = [m \in MarketKeys |-> 0]
    /\ withdrawn = 0
    /\ nBets = 0
    /\ nClaims = [m \in MarketKeys |-> [a \in Accounts |-> 0]]
    /\ nResolved = [m \in MarketKeys |-> 0]

\* The contract as deployed, the web client not loaded.
Init == InitChain /\ NoListing /\ NoStore

(* ------------------------------- time --------------------------------- *)
\* A later block: block.timestamp grows between transactions, never inside one.
Tick ==
    /\ stack = <<>>
    /\ now' = now + 1
    /\ UNCHANGED <<owner, status, storageVars, custody, stack, historyVars, uiVars>>

(* ---------------------------- createMarket ---------------------------- *)
\* Mutant of createMarketError: a deadline equal to the current time passes.
createMarketErrorAllowsNow(deadline) ==
    IF deadline < now THEN "DeadlineMustBeFuture" ELSE "ok"

createMarketError(deadline) ==
    IF deadline <= now THEN "DeadlineMustBeFuture" ELSE "ok"

\* Mutant of createMarket: the counter is read before it is incremented.
createMarketPostIncrement(sender, question, deadline) ==
    /\ LET err == createMarketError(deadline)
           marketId == marketCount
       IN IF err # "ok"
          THEN Reverts
          ELSE /\ marketCount' = marketCount + 1
               /\ markets' = [markets EXCEPT ![marketId] =
                                [question |-> question, deadline |-> deadline,
                                 resolved |-> FALSE, outcomeYes |-> FALSE,
                                 yesPool |-> 0, noPool |-> 0]]
               /\ UNCHANGED <<now, owner, status, minBetSize, maxBetSize,
                              platformFeeBps, accumulatedFees, yesStakes,
                              noStakes, claimed, custody, stack, historyVars, uiVars>>

createMarket(sender, question, deadline) ==
    /\ LET err == createMarketError(deadline)
           marketId == marketCount + 1
       IN IF err # "ok"
          THEN Reverts
          ELSE /\ marketCount' = marketId
               /\ markets' = [markets EXCEPT ![marketId] =
                                [question |-> question, deadline |-> deadline,
                                 resolved |-> FALSE, outcomeYes |-> FALSE,
                                 yesPool |-> 0, noPool |-> 0]]
               /\ UNCHANGED <<now, owner, status, minBetSize, maxBetSize,
                              platformFeeBps, accumulatedFees, yesStakes,
                              noStakes, claimed, custody, stack, historyVars, uiVars>>

(* ------------------------------ modifiers ----------------------------- *)
\* Ownable.onlyOwner
onlyOwnerError(sender) ==
    IF sender # owner THEN "OwnableUnauthorizedAccount" ELSE "ok"

\* ReentrancyGuard.nonReentrant, on entry
nonReentrantError ==
    IF status = ENTERED THEN "ReentrancyGuardReentrantCall" ELSE "ok"

(* --------------------------- betYes / betNo --------------------------- *)
\* Mutant of placeBetError: a bet at the deadline itself is still let in.
placeBetErrorLateByOne(marketId, amount) ==
    IF markets[marketId].deadline = 0 THEN "MarketDoesNotExist"
    ELSE IF markets[marketId].resolved THEN "MarketAlreadyResolved"
    ELSE IF now > markets[marketId].deadline THEN "MarketEnded"
    ELSE IF amount < minBetSize THEN "BetTooSmall"
    ELSE IF maxBetSize > 0 /\ amount > maxBetSize THEN "BetTooLarge"
    ELSE "ok"

placeBetError(marketId, amount) ==
    IF markets[marketId].deadline = 0 THEN "MarketDoesNotExist"
    ELSE IF markets[marketId].resolved THEN "MarketAlreadyResolved"
    ELSE IF now >= markets[marketId].deadline THEN "MarketEnded"
    ELSE IF amount < minBetSize THEN "BetTooSmall"
    ELSE IF maxBetSize > 0 /\ amount > maxBetSize THEN "BetTooLarge"
    ELSE "ok"

\* Mutant of betError: betYes and betNo are not nonReentrant.
betErrorNoLock(marketId, amount) == placeBetError(marketId, amount)

betError(marketId, amount) ==
    IF nonReentrantError # "ok" THEN nonReentrantError
    ELSE placeBetError(marketId, amount)

\* _placeBet up to token.safeTransferFrom(msg.sender, address(this), amount)
placeBet(sender, marketId, amount, isYes) ==
    /\ LET err == betError(marketId, amount)
           op == IF isYes THEN "betYes" ELSE "betNo"
       IN IF err # "ok"
          THEN Reverts
          ELSE /\ status' = ENTERED
               /\ stack' = Append(stack, Frame(op, sender, marketId, amount, isYes, sender))
               /\ UNCHANGED <<now, owner, storageVars, custody, historyVars, uiVars>>

betYes(sender, marketId, amount) == placeBet(sender, marketId, amount, TRUE)

betNo(sender, marketId, amount) == placeBet(sender, marketId, amount, FALSE)

\* Mutant of placeBetEffect: the amount always goes to the YES pool.
placeBetEffectYesPool(f) ==
    /\ markets' = [markets EXCEPT ![f.id].yesPool = @ + f.amount]
    /\ yesStakes' = [yesStakes EXCEPT
                       ![f.id][f.sender] = IF f.isYes THEN @ + f.amount ELSE @]
    /\ noStakes' = [noStakes EXCEPT
                      ![f.id][f.sender] = IF f.isYes THEN @ ELSE @ + f.amount]

\* Mutant of placeBetEffect: the stake is always recorded on the YES side.
placeBetEffectYesStake(f) ==
    /\ markets' = [markets EXCEPT
                     ![f.id].yesPool = IF f.isYes THEN @ + f.amount ELSE @,
                     ![f.id].noPool = IF f.isYes THEN @ ELSE @ + f.amount]
    /\ yesStakes' = [yesStakes EXCEPT ![f.id][f.sender] = @ + f.amount]
    /\ noStakes' = noStakes

\* The pool and stake the accepted bet is added to.
\* Mutant of placeBetEffect: the amount is added to the chosen side's pool of
\* every market that exists.
placeBetEffectAllMarkets(f) ==
    /\ markets' = [m \in MarketKeys |->
                     IF markets[m].deadline = 0 THEN markets[m]
                     ELSE IF f.isYes
                          THEN [markets[m] EXCEPT !.yesPool = @ + f.amount]
                          ELSE [markets[m] EXCEPT !.noPool = @ + f.amount]]
    /\ yesStakes' = [yesStakes EXCEPT
                       ![f.id][f.sender] = IF f.isYes THEN @ + f.amount ELSE @]
    /\ noStakes' = [noStakes EXCEPT
                      ![f.id][f.sender] = IF f.isYes THEN @ ELSE @ + f.amount]

placeBetEffect(f) ==
    /\ markets' = [markets EXCEPT
                     ![f.id].yesPool = IF f.isYes THEN @ + f.amount ELSE @,
                     ![f.id].noPool = IF f.isYes THEN @ ELSE @ + f.amount]
    /\ yesStakes' = [yesStakes EXCEPT
                       ![f.id][f.sender] = IF f.isYes THEN @ + f.amount ELSE @]
    /\ noStakes' = [noStakes EXCEPT
                      ![f.id][f.sender] = IF f.isYes THEN @ ELSE @ + f.amount]

\* The pull succeeded: the rest of _placeBet, then nonReentrant's exit.
placeBetReturn ==
    /\ stack # <<>>
    /\ Top.op \in {"betYes", "betNo"}
    /\ custody' = custody + Top.amount
    /\ placeBetEffect(Top)
    /\ status' = NOT_ENTERED
    /\ stack' = Pop
    /\ accepted' = [accepted EXCEPT ![Top.id] = @ + Top.amount]
    /\ nBets' = nBets + 1
    /\ UNCHANGED <<now, owner, marketCount, minBetSize, maxBetSize,
                   platformFeeBps, accumulatedFees, claimed, paidOut,
                   feesAccrued, withdrawn, nClaims, nResolved, uiVars>>

(* ---------------------------- resolveMarket --------------------------- *)
\* Mutant of resolveMarketError: the MarketNotEnded check is missing.
resolveMarketErrorNoDeadlineCheck(sender, marketId) ==
    IF onlyOwnerError(sender) # "ok" THEN onlyOwnerError(sender)
    ELSE IF markets[marketId].deadline = 0 THEN "MarketDoesNotExist"
    ELSE IF markets[marketId].resolved THEN "MarketAlreadyResolved"
    ELSE "ok"

\* Mutant of resolveMarketError: the MarketAlreadyResolved check is missing.
resolveMarketErrorNoResolvedCheck(sender, marketId) ==
    IF onlyOwnerError(sender) # "ok" THEN onlyOwnerError(sender)
    ELSE IF markets[marketId].deadline = 0 THEN "MarketDoesNotExist"
    ELSE IF now < markets[marketId].deadline THEN "MarketNotEnded"
    ELSE "ok"

resolveMarketError(sender, marketId) ==
    IF onlyOwnerError(sender) # "ok" THEN onlyOwnerError(sender)
    ELSE IF markets[marketId].deadline = 0 THEN "MarketDoesNotExist"
    ELSE IF markets[marketId].resolved THEN "MarketAlreadyResolved"
    ELSE IF now < markets[marketId].deadline THEN "MarketNotEnded"
    ELSE "ok"

resolveMarket(sender, marketId, outcomeYes) ==
    /\ LET err == resolveMarketError(sender, marketId)
       IN IF err # "ok"
          THEN Reverts
          ELSE /\ markets' = [markets EXCEPT ![marketId].resolved = TRUE,
                                             ![marketId].outcomeYes = outcomeYes]
               /\ nResolved' = [nResolved EXCEPT ![marketId] = @ + 1]
               /\ UNCHANGED <<now, owner, status, marketCount, minBetSize,
                              maxBetSize, platformFeeBps, accumulatedFees,
                              yesStakes, noStakes, claimed, custody, stack,
                              accepted, paidOut, feesAccrued, withdrawn, nBets,
                              nClaims, uiVars>>

(* -------------------------------- claim ------------------------------- *)
\* Mutant of calculatePayout: a stake on either side counts as a winning stake.
calculatePayoutAnyStake(marketId, user) ==
    LET market == markets[marketId]
        totalPool == market.yesPool + market.noPool
        userStake == yesStakes[marketId][user] + noStakes[marketId][user]
        pool == IF market.outcomeYes THEN market.yesPool ELSE market.noPool
    IN IF ~market.resolved THEN 0
       ELSE IF totalPool = 0 THEN 0
       ELSE IF userStake = 0 \/ pool = 0 THEN 0
       ELSE (userStake * totalPool) \div pool

\* Mutant of calculatePayout: the stake is divided by the other side's pool.
calculatePayoutWrongPool(marketId, user) ==
    LET market == markets[marketId]
        totalPool == market.yesPool + market.noPool
    IN IF ~market.resolved THEN 0
       ELSE IF totalPool = 0 THEN 0
       ELSE IF market.outcomeYes
            THEN IF yesStakes[marketId][user] = 0 \/ market.noPool = 0 THEN 0
                 ELSE (yesStakes[marketId][user] * totalPool) \div market.noPool
            ELSE IF noStakes[marketId][user] = 0 \/ market.yesPool = 0 THEN 0
                 ELSE (noStakes[marketId][user] * totalPool) \div market.yesPool

calculatePayout(marketId, user) ==
    LET market == markets[marketId]
        totalPool == market.yesPool + market.noPool
    IN IF ~market.resolved THEN 0
       ELSE IF totalPool = 0 THEN 0
       ELSE IF market.outcomeYes
            THEN IF yesStakes[marketId][user] = 0 \/ market.yesPool = 0 THEN 0
                 ELSE (yesStakes[marketId][user] * totalPool) \div market.yesPool
            ELSE IF noStakes[marketId][user] = 0 \/ market.noPool = 0 THEN 0
                 ELSE (noStakes[marketId][user] * totalPool) \div market.noPool

\* Mutant of feeOf: the fee is rounded up.
feeOfRoundedUp(payout) ==
    (payout * platformFeeBps + BPS_DENOMINATOR - 1) \div BPS_DENOMINATOR

feeOf(payout) == (payout * platformFeeBps) \div BPS_DENOMINATOR

\* Mutant of userPayoutOf: the fee is accumulated but not deducted.
userPayoutNoFee(payout) == payout

userPayoutOf(payout) == payout - feeOf(payout)

\* Mutant of claimError: the AlreadyClaimed check is missing.
claimErrorNoClaimedCheck(sender, marketId) ==
    IF nonReentrantError # "ok" THEN nonReentrantError
    ELSE IF markets[marketId].deadline = 0 THEN "MarketDoesNotExist"
    ELSE IF ~markets[marketId].resolved THEN "MarketNotResolved"
    ELSE IF calculatePayout(marketId, sender) = 0 THEN "NoWinnings"
    ELSE "ok"

claimError(sender, marketId) ==
    IF nonReentrantError # "ok" THEN nonReentrantError
    ELSE IF markets[marketId].deadline = 0 THEN "MarketDoesNotExist"
    ELSE IF ~markets[marketId].resolved THEN "MarketNotResolved"
    ELSE IF claimed[marketId][sender] THEN "AlreadyClaimed"
    ELSE IF calculatePayout(marketId, sender) = 0 THEN "NoWinnings"
    ELSE "ok"

\* The checks of claim's body alone, without the nonReentrant modifier.
claimChecksError(sender, marketId) ==
    IF markets[marketId].deadline = 0 THEN "MarketDoesNotExist"
    ELSE IF ~markets[marketId].resolved THEN "MarketNotResolved"
    ELSE IF claimed[marketId][sender] THEN "AlreadyClaimed"
    ELSE IF calculatePayout(marketId, sender) = 0 THEN "NoWinnings"
    ELSE "ok"

\* Mutant of claim: the claim record is not written before the transfer.
claimRecordsLate(sender, marketId) ==
    /\ LET err == claimError(sender, marketId)
           payout == calculatePayout(marketId, sender)
           fee == feeOf(payout)
           userPayout == userPayoutOf(payout)
       IN IF err # "ok"
          THEN Reverts
          ELSE /\ status' = ENTERED
               /\ accumulatedFees' = accumulatedFees + fee
               /\ feesAccrued' = [feesAccrued EXCEPT ![marketId] = @ + fee]
               /\ stack' = Append(stack, Frame("claim", sender, marketId, userPayout, FALSE, sender))
               /\ UNCHANGED <<now, owner, marketCount, minBetSize, maxBetSize,
                              platformFeeBps, markets, yesStakes, noStakes,
                              claimed, custody, accepted, paidOut, withdrawn,
                              nBets, nClaims, nResolved, uiVars>>

\* claim up to token.safeTransfer(msg.sender, userPayout)
claim(sender, marketId) ==
    /\ LET err == claimError(sender, marketId)
           payout == calculatePayout(marketId, sender)
           fee == feeOf(payout)
           userPayout == userPayoutOf(payout)
       IN IF err # "ok"
          THEN Reverts
          ELSE /\ status' = ENTERED
               /\ claimed' = [claimed EXCEPT ![marketId][sender] = TRUE]
               /\ accumulatedFees' = accumulatedFees + fee
               /\ feesAccrued' = [feesAccrued EXCEPT ![marketId] = @ + fee]
               /\ stack' = Append(stack, Frame("claim", sender, marketId, userPayout, FALSE, sender))
               /\ UNCHANGED <<now, owner, marketCount, minBetSize, maxBetSize,
                              platformFeeBps, markets, yesStakes, noStakes,
                              custody, accepted, paidOut, withdrawn, nBets,
                              nClaims, nResolved, uiVars>>

\* Mutant of claimReturn: the caller's stakes are consumed by the claim.
claimReturnConsumesStake ==
    /\ stack # <<>>
    /\ Top.op = "claim"
    /\ custody' = custody - Top.amount
    /\ status' = NOT_ENTERED
    /\ stack' = Pop
    /\ yesStakes' = [yesStakes EXCEPT ![Top.id][Top.sender] = 0]
    /\ noStakes' = [noStakes EXCEPT ![Top.id][Top.sender] = 0]
    /\ paidOut' = [paidOut EXCEPT ![Top.id] = @ + Top.amount]
    /\ nClaims' = [nClaims EXCEPT ![Top.id][Top.sender] = @ + 1]
    /\ UNCHANGED <<now, owner, marketCount, minBetSize, maxBetSize,
                   platformFeeBps, accumulatedFees, markets, claimed,
                   accepted, feesAccrued, withdrawn, nBets, nResolved, uiVars>>

\* The transfer succeeded: nonReentrant's exit.
claimReturn ==
    /\ stack # <<>>
    /\ Top.op = "claim"
    /\ custody' = custody - Top.amount
    /\ status' = NOT_ENTERED
    /\ stack' = Pop
    /\ paidOut' = [paidOut EXCEPT ![Top.id] = @ + Top.amount]
    /\ nClaims' = [nClaims EXCEPT ![Top.id][Top.sender] = @ + 1]
    /\ UNCHANGED <<now, owner, storageVars, accepted, feesAccrued, withdrawn,
                   nBets, nResolved, uiVars>>

(* ----------------------------- withdrawFees --------------------------- *)
\* Mutant of withdrawFeesError: withdrawFees is not onlyOwner.
withdrawFeesErrorNoOwner(sender) ==
    IF accumulatedFees = 0 THEN "NoWinnings" ELSE "ok"

withdrawFeesError(sender) ==
    IF onlyOwnerError(sender) # "ok" THEN onlyOwnerError(sender)
    ELSE IF accumulatedFees = 0 THEN "NoWinnings"
    ELSE "ok"

\* withdrawFees up to token.safeTransfer(to, fees)
\* Mutant of withdrawFees: the accumulator is not reset.
withdrawFeesKeepsAccumulator(sender, to) ==
    /\ LET err == withdrawFeesError(sender)
       IN IF err # "ok"
          THEN Reverts
          ELSE /\ stack' = Append(stack, Frame("withdrawFees", sender, 0, accumulatedFees, FALSE, to))
               /\ UNCHANGED <<now, owner, status, marketCount, minBetSize,
                              maxBetSize, platformFeeBps, accumulatedFees,
                              markets, yesStakes, noStakes, claimed, custody,
                              historyVars, uiVars>>

\* Mutant of withdrawFees: the whole token balance is sent, not the fees.
withdrawFeesSweepsCustody(sender, to) ==
    /\ LET err == withdrawFeesError(sender)
       IN IF err # "ok"
          THEN Reverts
          ELSE /\ accumulatedFees' = 0
               /\ stack' = Append(stack, Frame("withdrawFees", sender, 0, custody, FALSE, to))
               /\ UNCHANGED <<now, owner, status, marketCount, minBetSize,
                              maxBetSize, platformFeeBps, markets, yesStakes,
                              noStakes, claimed, custody, historyVars, uiVars>>

withdrawFees(sender, to) ==
    /\ LET err == withdrawFeesError(sender)
       IN IF err # "ok"
          THEN Reverts
          ELSE /\ accumulatedFees' = 0
               /\ stack' = Append(stack, Frame("withdrawFees", sender, 0, accumulatedFees, FALSE, to))
               /\ UNCHANGED <<now, owner, status, marketCount, minBetSize,
                              maxBetSize, platformFeeBps, markets, yesStakes,
                              noStakes, claimed, custody, historyVars, uiVars>>

withdrawFeesReturn ==
    /\ stack # <<>>
    /\ Top.op = "withdrawFees"
    /\ custody' = custody - Top.amount
    /\ stack' = Pop
    /\ withdrawn' = withdrawn + Top.amount
    /\ UNCHANGED <<now, owner, status, storageVars, accepted, paidOut,
                   feesAccrued, nBets, nClaims, nResolved, uiVars>>

(* ------------------------ a token call that fails --------------------- *)
\* SafeERC20 reverts when the token call fails; the revert undoes everything
\* the call did, nested calls included.
\* Mutant of TransferFails: the failed token call is ignored (transfer's
\* result unchecked), so the call ends and keeps what it wrote.
TransferFailsIgnored ==
    /\ stack # <<>>
    /\ status' = IF Top.op = "withdrawFees" THEN status ELSE NOT_ENTERED
    /\ stack' = Pop
    /\ UNCHANGED <<now, owner, storageVars, custody, historyVars, uiVars>>

TransferFails ==
    /\ stack # <<>>
    /\ Restore(Top.snap)
    /\ stack' = Pop
    /\ UNCHANGED <<now, uiVars>>

(* ------------------------- setFee / setBetLimits ---------------------- *)
\* Mutant of setFeeError: the ceiling is not checked.
setFeeErrorNoCap(sender, newFeeBps) == onlyOwnerError(sender)

setFeeError(sender, newFeeBps) ==
    IF onlyOwnerError(sender) # "ok" THEN onlyOwnerError(sender)
    ELSE IF ~(newFeeBps <= MAX_FEE_BPS) THEN "Fee too high"
    ELSE "ok"

setFee(sender, newFeeBps) ==
    /\ LET err == setFeeError(sender, newFeeBps)
       IN IF err # "ok"
          THEN Reverts
          ELSE /\ platformFeeBps' = newFeeBps
               /\ UNCHANGED <<now, owner, status, marketCount, minBetSize,
                              maxBetSize, accumulatedFees, markets, yesStakes,
                              noStakes, claimed, custody, stack, historyVars, uiVars>>

setBetLimitsError(sender) == onlyOwnerError(sender)

setBetLimits(sender, min, max) ==
    /\ LET err == setBetLimitsError(sender)
       IN IF err # "ok"
          THEN Reverts
          ELSE /\ minBetSize' = min
               /\ maxBetSize' = max
               /\ UNCHANGED <<now, owner, status, marketCount, platformFeeBps,
                              accumulatedFees, markets, yesStakes, noStakes,
                              claimed, custody, stack, historyVars, uiVars>>

(* ------------------------------ Ownable ------------------------------- *)
\* PredictionMarkets is Ownable: it inherits Ownable's two public functions
\* that write the owner.
transferOwnershipError(sender, newOwner) ==
    IF onlyOwnerError(sender) # "ok" THEN onlyOwnerError(sender)
    ELSE IF newOwner = ZeroAddress THEN "OwnableInvalidOwner"
    ELSE "ok"

\* Mutant of transferOwnership: it is not onlyOwner.
transferOwnershipByAnyone(sender, newOwner) ==
    IF newOwner = ZeroAddress
    THEN Reverts
    ELSE /\ owner' = newOwner
         /\ UNCHANGED <<now, status, storageVars, custody, stack, historyVars, uiVars>>

transferOwnership(sender, newOwner) ==
    IF transferOwnershipError(sender, newOwner) # "ok"
    THEN Reverts
    ELSE /\ owner' = newOwner
         /\ UNCHANGED <<now, status, storageVars, custody, stack, historyVars, uiVars>>

renounceOwnershipError(sender) == onlyOwnerError(sender)

renounceOwnership(sender) ==
    IF renounceOwnershipError(sender) # "ok"
    THEN Reverts
    ELSE /\ owner' = ZeroAddress
         /\ UNCHANGED <<now, status, storageVars, custody, stack, historyVars, uiVars>>

(* ------------------------------- views -------------------------------- *)
\* Mutant of getMarketError: getMarket checks that the market exists.
getMarketErrorChecked(marketId) ==
    IF markets[marketId].deadline = 0 THEN "MarketDoesNotExist" ELSE "ok"

\* getMarket has no revert: it reads markets[marketId] whatever the id is.
getMarketError(marketId) == "ok"

\* <<question, deadline, resolved, outcomeYes, yesPool, noPool>>
getMarket(marketId) ==
    LET m == markets[marketId]
    IN <<m.question, m.deadline, m.resolved, m.outcomeYes, m.yesPool, m.noPool>>

calculatePayoutAfterFee(marketId, user) ==
    LET payout == calculatePayout(marketId, user)
        fee == (payout * platformFeeBps) \div BPS_DENOMINATOR
    IN IF payout = 0 THEN 0 ELSE payout - fee

\* Mutant of getOdds: each percentage is rounded down on its own.
getOddsBothFloored(marketId) ==
    LET market == markets[marketId]
        total == market.yesPool + market.noPool
    IN IF total = 0 THEN <<50, 50>>
       ELSE <<(market.yesPool * 100) \div total, (market.noPool * 100) \div total>>

\* <<yesPercent, noPercent>>
getOdds(marketId) ==
    LET market == markets[marketId]
        total == market.yesPool + market.noPool
        yesPercent == (market.yesPool * 100) \div total
    IN IF total = 0 THEN <<50, 50>>
       ELSE <<yesPercent, 100 - yesPercent>>

(* ------------------------------- Next --------------------------------- *)
\* A call can be made from outside (no call open) or from inside the token
\* call of the innermost open call, up to MaxDepth calls deep.
CanCall == Len(stack) < MaxDepth

Next ==
    \/ now < MaxTime /\ Tick
    \/ \E s \in Accounts, q \in Questions, d \in DeadlineChoices :
          CanCall /\ marketCount < MaxMarkets /\ createMarket(s, q, d)
    \/ \E s \in Accounts, m \in MarketKeys, x \in BetAmounts :
          CanCall /\ nBets < MaxBets /\ betYes(s, m, x)
    \/ \E s \in Accounts, m \in MarketKeys, x \in BetAmounts :
          CanCall /\ nBets < MaxBets /\ betNo(s, m, x)
    \/ \E s \in Accounts, m \in MarketKeys, o \in BOOLEAN :
          CanCall /\ resolveMarket(s, m, o)
    \/ \E s \in Accounts, m \in MarketKeys : CanCall /\ claim(s, m)
    \/ \E s \in Accounts, to \in Accounts : CanCall /\ withdrawFees(s, to)
    \/ \E s \in Accounts, bps \in FeeChoices : CanCall /\ setFee(s, bps)
    \/ \E s \in Accounts, lim \in LimitChoices :
          CanCall /\ setBetLimits(s, lim[1], lim[2])
    \/ placeBetReturn
    \/ claimReturn
    \/ withdrawFeesReturn
    \/ TransferFails

Spec == Init /\ [][Next]_vars

(* ------------------------ what the claims speak of -------------------- *)
MarketIds == 1..MaxMarkets

\* No call is open: the state a transaction starts from and ends in.
Idle == stack = <<>>

\* The state the chain keeps if every open call reverts: the state as of the
\* latest completed transaction.
Committed == IF stack = <<>> THEN Snapshot ELSE stack[1].snap

totalPoolOf(m) == markets[m].yesPool + markets[m].noPool

(* -------------------------------- C1 ---------------------------------- *)
\* C1: for every market and account, claim succeeds at most once; once it has
\* succeeded, a later claim by the same account (let in by the lock) fails
\* with AlreadyClaimed and changes nothing, so it transfers nothing; and the
\* claim record of a completed claim never returns to false.
C1_ClaimAtMostOnce ==
    /\ [](\A m \in MarketKeys, a \in Accounts :
            /\ nClaims[m][a] <= 1
            /\ nClaims[m][a] = 1 => claimed[m][a]
            /\ (claimed[m][a] /\ status = NOT_ENTERED)
                  => claimError(a, m) = "AlreadyClaimed")
    /\ [][/\ \A m \in MarketKeys, a \in Accounts :
                Committed.claimed[m][a]
                    => (claimed'[m][a] /\ Committed'.claimed[m][a])
          /\ \/ UNCHANGED vars
             \/ \A m \in MarketKeys, a \in Accounts :
                    ~(claimed[m][a] /\ claim(a, m))]_vars

\* A claim has succeeded, and the ledger still holds value a second claim
\* could take.
C1_Witness ==
    \E m \in MarketIds, a \in Accounts :
        /\ Idle
        /\ nClaims[m][a] = 1
        /\ claimed[m][a]
        /\ calculatePayout(m, a) > 0
        /\ custody >= calculatePayout(m, a)

(* -------------------------------- C2 ---------------------------------- *)
TotalIn == Sum(accepted, MarketKeys)

TotalOut == Sum(paidOut, MarketKeys) + withdrawn

OutgoingFrames == {i \in 1..Len(stack) : stack[i].op \in {"claim", "withdrawFees"}}

PendingOut == Sum([i \in OutgoingFrames |-> stack[i].amount], OutgoingFrames)

\* C2: the value transferred out (user shares paid by claim plus amounts paid
\* by withdrawFees) is at most the value pulled in by accepted bets, and per
\* market the user shares paid plus the fees accrued from its claims are at
\* most yesPool + noPool.  The token balance is what came in minus what went
\* out, and it covers every transfer the ledger has started.
C2_NoMoreOutThanIn ==
    /\ TotalOut <= TotalIn
    /\ custody = TotalIn - TotalOut
    /\ PendingOut <= custody
    /\ \A m \in MarketKeys : paidOut[m] + feesAccrued[m] <= totalPoolOf(m)

\* Every winner of a market has been paid and the fees have been withdrawn.
C2_Witness ==
    \E m \in MarketIds :
        /\ Idle
        /\ markets[m].resolved
        /\ paidOut[m] > 0
        /\ withdrawn > 0
        /\ \A a \in Accounts : calculatePayout(m, a) > 0 => claimed[m][a]
        /\ \E a \in Accounts : calculatePayout(m, a) = 0 /\ noStakes[m][a] + yesStakes[m][a] > 0

(* -------------------------------- C3 ---------------------------------- *)
UnresolvedPools ==
    Sum([m \in MarketKeys |-> IF markets[m].resolved THEN 0 ELSE totalPoolOf(m)],
        MarketKeys)

UnclaimedPayoutOf(m) ==
    Sum([a \in Accounts |-> IF markets[m].resolved /\ ~claimed[m][a]
                             THEN calculatePayout(m, a) ELSE 0], Accounts)

UnclaimedPayouts == Sum([m \in MarketKeys |-> UnclaimedPayoutOf(m)], MarketKeys)

\* What no account can ever claim from a resolved market: the rounding dust,
\* or the whole pool when nobody staked on the winning side.
Residue(m) ==
    IF markets[m].resolved
    THEN totalPoolOf(m) - Sum([a \in Accounts |-> calculatePayout(m, a)], Accounts)
    ELSE 0

Residues == Sum([m \in MarketKeys |-> Residue(m)], MarketKeys)

\* C3 as stated: between calls, custody equals the pools of the unresolved
\* markets plus the unclaimed payouts of the resolved markets plus the fee
\* accumulator, exactly.
C3_Original ==
    Idle => custody = UnresolvedPools + UnclaimedPayouts + accumulatedFees

\* C3 as amended: between calls, custody equals that sum plus the residue of
\* every resolved market, and no residue is negative: custody is at least the
\* sum, and equal to it only while no resolved market has a residue.
C3_CustodyWithResidue ==
    /\ \A m \in MarketKeys : Residue(m) >= 0
    /\ Idle => custody = UnresolvedPools + UnclaimedPayouts + accumulatedFees
                           + Residues

\* A market resolved with rounding dust, one winner paid and one not yet.
C3_Witness ==
    \E m \in MarketIds :
        /\ Idle
        /\ markets[m].resolved
        /\ Residue(m) > 0
        /\ accumulatedFees > 0
        /\ \E a, b \in Accounts :
              /\ claimed[m][a]
              /\ ~claimed[m][b]
              /\ calculatePayout(m, b) > 0

(* -------------------------------- C4 ---------------------------------- *)
\* C4: for every market, before its resolution, yesPool + noPool is the sum
\* of the amounts of the bets accepted for it, yesPool is the sum of the
\* accounts' yes-stakes and noPool the sum of their no-stakes.
C4_PoolsAreAcceptedBets ==
    \A m \in MarketKeys :
        ~markets[m].resolved =>
            /\ totalPoolOf(m) = accepted[m]
            /\ markets[m].yesPool = Sum(yesStakes[m], Accounts)
            /\ markets[m].noPool = Sum(noStakes[m], Accounts)

\* An unresolved market with bets of different amounts on both sides.
C4_Witness ==
    \E m \in MarketIds :
        /\ ~markets[m].resolved
        /\ nBets = MaxBets
        /\ markets[m].yesPool > 0
        /\ markets[m].noPool > markets[m].yesPool
        /\ \A a \in Accounts : yesStakes[m][a] + noStakes[m][a] > 0

(* -------------------------------- C5 ---------------------------------- *)
winningPoolOf(m) ==
    IF markets[m].outcomeYes THEN markets[m].yesPool ELSE markets[m].noPool

winningStakeOf(m, a) ==
    IF markets[m].outcomeYes THEN yesStakes[m][a] ELSE noStakes[m][a]

Winners(m) == {a \in Accounts : winningStakeOf(m, a) > 0}

WinnersShare(m) ==
    Sum([a \in Winners(m) |->
            (winningStakeOf(m, a) * totalPoolOf(m)) \div winningPoolOf(m)],
        Winners(m))

\* C5: in every resolved market the floors of stake * total / winningPool,
\* summed over the accounts with a stake on the winning side, are at most
\* total = yesPool + noPool: the dust is never negative.  (An empty winning
\* pool has no account with a stake on it, so the sum is empty there.)
C5_DustNeverNegative ==
    \A m \in MarketKeys :
        markets[m].resolved =>
            IF winningPoolOf(m) = 0
            THEN Winners(m) = {}
            ELSE WinnersShare(m) <= totalPoolOf(m)

\* A resolved market whose winners' floors leave dust.
C5_Witness ==
    \E m \in MarketIds :
        /\ markets[m].resolved
        /\ Cardinality(Winners(m)) = 2
        /\ winningPoolOf(m) > 0
        /\ WinnersShare(m) < totalPoolOf(m)

(* -------------------------------- C6 ---------------------------------- *)
Exists(m) == markets[m].deadline # 0

\* C6: resolveMarket on an existing market fails MarketNotEnded while
\* now < deadline (no caller succeeds then), succeeds when the owner calls it
\* at now >= deadline on an unresolved market, and does so at most once per
\* market: every later call fails MarketAlreadyResolved and changes nothing,
\* and resolved and outcomeYes of a resolved market never change again.
C6_ResolveOnce ==
    /\ [](\A m \in MarketKeys :
            /\ nResolved[m] <= 1
            /\ markets[m].resolved <=> nResolved[m] = 1
            /\ Exists(m) =>
                  /\ now < markets[m].deadline =>
                        /\ resolveMarketError(owner, m) = "MarketNotEnded"
                        /\ \A s \in Accounts : resolveMarketError(s, m) # "ok"
                  /\ (now >= markets[m].deadline /\ ~markets[m].resolved) =>
                        resolveMarketError(owner, m) = "ok"
                  /\ markets[m].resolved =>
                        resolveMarketError(owner, m) = "MarketAlreadyResolved")
    /\ [][/\ \A m \in MarketKeys :
                Committed.markets[m].resolved =>
                    /\ markets'[m].resolved
                    /\ markets'[m].outcomeYes = Committed.markets[m].outcomeYes
                    /\ Committed'.markets[m].resolved
                    /\ Committed'.markets[m].outcomeYes = Committed.markets[m].outcomeYes
          /\ \/ UNCHANGED vars
             \/ \A m \in MarketKeys, s \in Accounts, o \in BOOLEAN :
                    ~(markets[m].resolved /\ resolveMarket(s, m, o))]_vars

\* A market with stakes on both sides has been resolved.
C6_Witness ==
    \E m \in MarketIds :
        /\ Idle
        /\ markets[m].resolved
        /\ nResolved[m] = 1
        /\ now >= markets[m].deadline
        /\ markets[m].yesPool > 0
        /\ markets[m].noPool > 0

(* -------------------------------- C7 ---------------------------------- *)
\* C7: betYes / betNo on an existing unresolved market fail MarketEnded once
\* now >= deadline (for a call the lock lets in), no bet is accepted at or
\* after the deadline, and neither pool of a market changes from then on,
\* resolved or not.
C7_NoBetFromDeadline ==
    /\ [](\A m \in MarketKeys, x \in BetAmounts :
            (Exists(m) /\ now >= markets[m].deadline) =>
                /\ betError(m, x) # "ok"
                /\ (~markets[m].resolved /\ status = NOT_ENTERED) =>
                      betError(m, x) = "MarketEnded")
    /\ [][\A m \in MarketKeys :
            (Exists(m) /\ now >= markets[m].deadline) =>
                /\ markets'[m].yesPool = markets[m].yesPool
                /\ markets'[m].noPool = markets[m].noPool
                /\ accepted'[m] = accepted[m]]_vars

\* A market with bets is past its deadline and unresolved, and the bet limits
\* would let another bet in.
C7_Witness ==
    \E m \in MarketIds, x \in BetAmounts :
        /\ Idle
        /\ Exists(m)
        /\ ~markets[m].resolved
        /\ now >= markets[m].deadline
        /\ totalPoolOf(m) > 0
        /\ nBets < MaxBets
        /\ x >= minBetSize
        /\ (maxBetSize > 0 => x <= maxBetSize)

(* -------------------------------- C8 ---------------------------------- *)
LockingOps == {"betYes", "betNo", "claim"}

\* C8: while a betYes, betNo or claim call is open (the lock is held), every
\* nested call into betYes, betNo or claim fails at once and changes nothing;
\* the lock is held exactly while such a call is open, so it is released when
\* the call ends, by success or by failure.
C8_LockRejectsReentry ==
    /\ [](status = ENTERED <=> \E i \in 1..Len(stack) : stack[i].op \in LockingOps)
    /\ [](Idle => status = NOT_ENTERED)
    /\ [](status = ENTERED =>
            \A m \in MarketKeys, a \in Accounts, x \in BetAmounts :
                /\ betError(m, x) = "ReentrancyGuardReentrantCall"
                /\ claimError(a, m) = "ReentrancyGuardReentrantCall")
    /\ [][\/ UNCHANGED vars
          \/ status # ENTERED
          \/ \A m \in MarketKeys, a \in Accounts :
                /\ ~claim(a, m)
                /\ \A x \in BetAmounts : ~betYes(a, m, x) /\ ~betNo(a, m, x)]_vars

\* A claim is open and holds the lock, and a call nested in its token call
\* has run (the owner changed the fee rate).
C8_Witness ==
    /\ Len(stack) = 1
    /\ Top.op = "claim"
    /\ status = ENTERED
    /\ Top.snap.platformFeeBps # platformFeeBps

(* -------------------------------- C9 ---------------------------------- *)
Unauthorized == "OwnableUnauthorizedAccount"

\* C9: resolveMarket, withdrawFees, setFee and setBetLimits called by an
\* account other than the owner fail Unauthorized before any other check
\* (whatever the other arguments and the state are) and change nothing.
C9_OwnerOnly ==
    /\ [](\A s \in Accounts \ {owner} :
            /\ \A m \in MarketKeys : resolveMarketError(s, m) = Unauthorized
            /\ withdrawFeesError(s) = Unauthorized
            /\ \A bps \in FeeChoices : setFeeError(s, bps) = Unauthorized
            /\ setBetLimitsError(s) = Unauthorized)
    /\ [][\/ UNCHANGED vars
          \/ \A s \in Accounts \ {owner} :
                /\ \A m \in MarketKeys, o \in BOOLEAN : ~resolveMarket(s, m, o)
                /\ \A to \in Accounts : ~withdrawFees(s, to)
                /\ \A bps \in FeeChoices : ~setFee(s, bps)
                /\ \A lim \in LimitChoices : ~setBetLimits(s, lim[1], lim[2])]_vars

\* Fees wait to be withdrawn: the same call by the owner would succeed.
C9_Witness ==
    /\ Idle
    /\ accumulatedFees > 0
    /\ withdrawFeesError(owner) = "ok"
    /\ \E s \in Accounts : s # owner

(* -------------------------------- C10 --------------------------------- *)
\* C10: a call that fails leaves everything as it was before the call: a call
\* that fails a check writes nothing, and a call whose token call fails is
\* rolled back to the state it started from (market count, markets, pools,
\* stakes, claim records, fee accumulator, configuration, token balance).
C10_FailureChangesNothing ==
    [][/\ \/ UNCHANGED vars
          \/ \A s \in Accounts :
                /\ \A d \in DeadlineChoices, q \in Questions :
                      ~(createMarketError(d) # "ok" /\ createMarket(s, q, d))
                /\ \A m \in MarketKeys, x \in BetAmounts :
                      ~(betError(m, x) # "ok"
                          /\ (betYes(s, m, x) \/ betNo(s, m, x)))
                /\ \A m \in MarketKeys, o \in BOOLEAN :
                      ~(resolveMarketError(s, m) # "ok" /\ resolveMarket(s, m, o))
                /\ \A m \in MarketKeys :
                      ~(claimError(s, m) # "ok" /\ claim(s, m))
                /\ \A to \in Accounts :
                      ~(withdrawFeesError(s) # "ok" /\ withdrawFees(s, to))
                /\ \A bps \in FeeChoices :
                      ~(setFeeError(s, bps) # "ok" /\ setFee(s, bps))
                /\ \A lim \in LimitChoices :
                      ~(setBetLimitsError(s) # "ok"
                          /\ setBetLimits(s, lim[1], lim[2]))
       /\ TransferFails => (Snapshot' = Top.snap /\ stack' = Pop)]_vars

\* A claim is waiting in its token call after it has set the claim record and
\* added its fee: what a failure of the transfer has to undo.
C10_Witness ==
    /\ stack # <<>>
    /\ Top.op = "claim"
    /\ claimed[Top.id][Top.sender]
    /\ ~Top.snap.claimed[Top.id][Top.sender]
    /\ accumulatedFees > Top.snap.accumulatedFees

(* ------------------------------ SpecPools ----------------------------- *)
\* The contract after betting has closed on market 1, for every way the two
\* accounts can have staked amounts of StakeChoices on the two sides (bet
\* limits <<100, 0>>: no upper bound).  From there the market is resolved and
\* claimed, and the fee rate is changed, without nested calls.
InitPools ==
    \E ys \in [Accounts -> StakeChoices], ns \in [Accounts -> StakeChoices] :
        LET yp == Sum(ys, Accounts)
            np == Sum(ns, Accounts)
            zero == [a \in Accounts |-> 0]
        IN /\ now = 2
           /\ owner = Deployer
           /\ status = NOT_ENTERED
           /\ marketCount = 1
           /\ minBetSize = 100
           /\ maxBetSize = 0
           /\ platformFeeBps = InitialFeeBps
           /\ accumulatedFees = 0
           /\ markets = [m \in MarketKeys |->
                           IF m = 1
                           THEN [question |-> "Q", deadline |-> 2,
                                 resolved |-> FALSE, outcomeYes |-> FALSE,
                                 yesPool |-> yp, noPool |-> np]
                           ELSE NoMarket]
           /\ yesStakes = [m \in MarketKeys |-> IF m = 1 THEN ys ELSE zero]
           /\ noStakes = [m \in MarketKeys |-> IF m = 1 THEN ns ELSE zero]
           /\ claimed = [m \in MarketKeys |-> [a \in Accounts |-> FALSE]]
           /\ custody = yp + np
           /\ stack = <<>>
           /\ accepted = [m \in MarketKeys |-> IF m = 1 THEN yp + np ELSE 0]
           /\ paidOut = [m \in MarketKeys |-> 0]
           /\ feesAccrued = [m \in MarketKeys |-> 0]
           /\ withdrawn = 0
           /\ nBets = Cardinality({a \in Accounts : ys[a] > 0})
                        + Cardinality({a \in Accounts : ns[a] > 0})
           /\ nClaims = [m \in MarketKeys |-> [a \in Accounts |-> 0]]
           /\ nResolved = [m \in MarketKeys |-> 0]
           /\ NoListing
           /\ NoStore

NextPools ==
    \/ \E s \in Accounts, m \in MarketIds, o \in BOOLEAN :
          Idle /\ resolveMarket(s, m, o)
    \/ \E s \in Accounts, m \in MarketIds : Idle /\ claim(s, m)
    \/ \E s \in Accounts, bps \in FeeChoices : Idle /\ setFee(s, bps)
    \/ claimReturn
    \/ TransferFails

SpecPools == InitPools /\ [][NextPools]_vars

(* -------------------------------- C11 --------------------------------- *)
\* C11: calculatePayout(m, a) is 0 while m is unresolved, 0 when a's stake on
\* the winning side is 0 or the winning pool is 0 (so 0 for an account that
\* staked only on the losing side), and otherwise exactly
\* floor(stake * (yesPool + noPool) / winningPool), the winning side being
\* the one the fixed outcome names.
C11_PayoutFormula ==
    \A m \in MarketKeys, a \in Accounts :
        LET mk == markets[m]
            stake == IF mk.outcomeYes THEN yesStakes[m][a] ELSE noStakes[m][a]
            other == IF mk.outcomeYes THEN noStakes[m][a] ELSE yesStakes[m][a]
            winningPool == IF mk.outcomeYes THEN mk.yesPool ELSE mk.noPool
        IN /\ ~mk.resolved => calculatePayout(m, a) = 0
           /\ (mk.resolved /\ (stake = 0 \/ winningPool = 0))
                 => calculatePayout(m, a) = 0
           /\ (mk.resolved /\ stake = 0 /\ other > 0) => calculatePayout(m, a) = 0
           /\ (mk.resolved /\ stake > 0 /\ winningPool > 0)
                 => calculatePayout(m, a)
                      = (stake * (mk.yesPool + mk.noPool)) \div winningPool

\* A resolved market where an account staked on both sides and its payout,
\* counted on the winning stake alone, is rounded down and exceeds that stake.
C11_Witness ==
    \E m \in MarketIds, a \in Accounts :
        /\ markets[m].resolved
        /\ yesStakes[m][a] > 0
        /\ noStakes[m][a] > 0
        /\ (winningStakeOf(m, a) * totalPoolOf(m)) % winningPoolOf(m) # 0
        /\ calculatePayout(m, a) > winningStakeOf(m, a)

(* -------------------------------- C12 --------------------------------- *)
\* C12: a successful claim with payout p at fee rate feeBps adds exactly
\* floor(p * feeBps / 10000) to the fee accumulator, pays exactly p - fee to
\* the caller and lowers custody by exactly p - fee (the fee stays in
\* custody).  With yesPool 700, noPool 300, outcome YES, yes-stake 100 and
\* 200 bps: payout 142, fee 2, the caller receives 140.
\* calculatePayoutAfterFee returns the same p - fee.
C12_FeeSplit ==
    /\ [](\A m \in MarketKeys, a \in Accounts :
            LET p == calculatePayout(m, a)
            IN /\ calculatePayoutAfterFee(m, a)
                    = p - ((p * platformFeeBps) \div 10000)
               /\ (/\ markets[m].resolved /\ markets[m].outcomeYes
                   /\ markets[m].yesPool = 700 /\ markets[m].noPool = 300
                   /\ yesStakes[m][a] = 100 /\ platformFeeBps = 200)
                     => /\ p = 142
                        /\ feeOf(p) = 2
                        /\ userPayoutOf(p) = 140
                        /\ calculatePayoutAfterFee(m, a) = 140)
    /\ [][\A m \in MarketKeys, a \in Accounts :
            LET p == calculatePayout(m, a)
                fee == (p * platformFeeBps) \div 10000
            IN /\ (claimError(a, m) = "ok" /\ claim(a, m)) =>
                     /\ accumulatedFees' = accumulatedFees + fee
                     /\ stack' = Append(stack, Top')
                     /\ Top'.op = "claim" /\ Top'.to = a
                     /\ Top'.amount = p - fee
                     /\ calculatePayoutAfterFee(m, a) = Top'.amount
                     /\ custody' = custody
               /\ (claimReturn /\ Top.id = m /\ Top.sender = a) =>
                     /\ custody' = Top.snap.custody - (p - fee)
                     /\ accumulatedFees' = Top.snap.accumulatedFees + fee
                     /\ paidOut'[m] = paidOut[m] + (p - fee)
                     /\ nClaims'[m][a] = nClaims[m][a] + 1]_vars

\* The example has happened: 100 of the 700 on YES claimed at 200 bps.
C12_Witness ==
    \E m \in MarketIds, a \in Accounts :
        /\ Idle
        /\ markets[m].resolved /\ markets[m].outcomeYes
        /\ markets[m].yesPool = 700 /\ markets[m].noPool = 300
        /\ yesStakes[m][a] = 100
        /\ nClaims[m][a] = 1
        /\ paidOut[m] = 140
        /\ accumulatedFees = 2
        /\ custody = 860

(* -------------------------------- C13 --------------------------------- *)
\* C13: getOdds returns (50, 50) when yesPool + noPool is 0, and otherwise
\* yesPercent = floor(yesPool * 100 / total) and noPercent = 100 - yesPercent:
\* the two always sum to exactly 100 and each lies in 0..100.
C13_OddsSumTo100 ==
    \A m \in MarketKeys :
        LET yp == markets[m].yesPool
            np == markets[m].noPool
            odds == getOdds(m)
        IN /\ Len(odds) = 2
           /\ yp + np = 0 => odds = <<50, 50>>
           /\ yp + np > 0 =>
                 /\ odds[1] = (yp * 100) \div (yp + np)
                 /\ odds[2] = 100 - odds[1]
           /\ odds[1] + odds[2] = 100
           /\ odds[1] \in 0..100
           /\ odds[2] \in 0..100

\* A market whose YES share is not a whole percentage.
C13_Witness ==
    \E m \in MarketIds :
        /\ markets[m].yesPool > 0
        /\ markets[m].noPool > 0
        /\ (markets[m].yesPool * 100) % totalPoolOf(m) # 0
        /\ getOdds(m)[1] + (markets[m].noPool * 100) \div totalPoolOf(m) = 99

(* ------------------------------ SpecFlat ------------------------------ *)
\* The contract with up to MaxMarketsFlat markets, every call made from
\* outside (the token does not call back), at the initial fee rate.
NextFlat ==
    \/ now < MaxTime /\ Tick
    \/ \E s \in Accounts, q \in Questions, d \in DeadlineChoices :
          Idle /\ marketCount < MaxMarketsFlat /\ createMarket(s, q, d)
    \/ \E s \in Accounts, m \in MarketKeys, x \in BetAmounts :
          Idle /\ nBets < MaxBets /\ betYes(s, m, x)
    \/ \E s \in Accounts, m \in MarketKeys, x \in BetAmounts :
          Idle /\ nBets < MaxBets /\ betNo(s, m, x)
    \/ \E s \in Accounts, m \in MarketKeys, o \in BOOLEAN :
          Idle /\ resolveMarket(s, m, o)
    \/ \E s \in Accounts, m \in MarketKeys : Idle /\ claim(s, m)
    \/ \E s \in Accounts, lim \in LimitChoices :
          Idle /\ setBetLimits(s, lim[1], lim[2])
    \/ placeBetReturn
    \/ claimReturn
    \/ TransferFails

SpecFlat == Init /\ [][NextFlat]_vars

(* -------------------------------- C14 --------------------------------- *)
\* C14: createMarket fails DeadlineMustBeFuture and leaves the counter and
\* all markets unchanged whenever deadline <= now; otherwise the new id is
\* marketCount + 1, so the ids are 1, 2, 3, ... without gaps or reuse, and
\* the new market starts unresolved, with both pools 0 and the given
\* deadline, while every other market stays as it is.
C14_SequentialIds ==
    /\ [](/\ \A d \in DeadlineChoices :
                createMarketError(d) = "DeadlineMustBeFuture" <=> d <= now
          /\ \A m \in MarketKeys : Exists(m) <=> (1 <= m /\ m <= marketCount))
    /\ [][/\ marketCount' \in {marketCount, marketCount + 1}
          /\ \A s \in Accounts, q \in Questions, d \in DeadlineChoices :
                createMarket(s, q, d) =>
                    IF d <= now
                    THEN marketCount' = marketCount /\ markets' = markets
                    ELSE /\ marketCount' = marketCount + 1
                         /\ ~Exists(marketCount + 1)
                         /\ markets'[marketCount + 1] =
                               [question |-> q, deadline |-> d,
                                resolved |-> FALSE, outcomeYes |-> FALSE,
                                yesPool |-> 0, noPool |-> 0]
                         /\ \A m \in MarketKeys \ {marketCount + 1} :
                               markets'[m] = markets[m]]_vars

\* A second market has been created next to a first one that holds bets.
C14_Witness ==
    /\ marketCount = 2
    /\ Exists(1)
    /\ Exists(2)
    /\ totalPoolOf(1) > 0
    /\ totalPoolOf(2) = 0
    /\ ~markets[2].resolved

(* -------------------------------- C15 --------------------------------- *)
NeverCreated(m) == m = 0 \/ m > marketCount

\* C15 as stated: getMarket fails for every id that createMarket never
\* returned (0, or above marketCount).
C15_Original ==
    \A m \in MarketKeys : NeverCreated(m) => getMarketError(m) # "ok"

\* C15, amended: getMarket never fails.  For an id that createMarket never
\* returned it returns the all-zero record ("", 0, false, false, 0, 0); for an
\* existing id it returns the market's current question, deadline, resolved,
\* outcome, yesPool and noPool.  (It is a view: it is no step of the
\* contract and writes nothing.)
C15_GetMarketNeverFails ==
    \A m \in MarketKeys :
        /\ getMarketError(m) = "ok"
        /\ NeverCreated(m) => getMarket(m) = <<"", 0, FALSE, FALSE, 0, 0>>
        /\ getMarket(m) = <<markets[m].question, markets[m].deadline,
                            markets[m].resolved, markets[m].outcomeYes,
                            markets[m].yesPool, markets[m].noPool>>
        /\ ~NeverCreated(m) => getMarket(m)[2] > 0

\* One market exists, resolved and holding bets, and the id after it has
\* never been created.
C15_Witness ==
    /\ marketCount = 1
    /\ markets[1].resolved
    /\ totalPoolOf(1) > 0
    /\ NeverCreated(2)
    /\ getMarket(1)[5] + getMarket(1)[6] = totalPoolOf(1)

(* -------------------------------- C16 --------------------------------- *)
\* C16: withdrawFees by the owner fails NoWinnings and changes nothing when
\* the fee accumulator is 0; otherwise it sets the accumulator to 0 and
\* transfers exactly the amount it held to the recipient.  No other operation
\* ever lowers the accumulator (a step that lowers it is withdrawFees, or the
\* revert of a call that had raised it), and withdrawFees changes no market,
\* stake or claim record.
C16_WithdrawFees ==
    /\ [](/\ accumulatedFees >= 0
          /\ accumulatedFees = 0 => withdrawFeesError(owner) = "NoWinnings"
          /\ accumulatedFees > 0 => withdrawFeesError(owner) = "ok")
    /\ [][/\ \/ UNCHANGED vars
             \/ accumulatedFees # 0
             \/ \A to \in Accounts : ~withdrawFees(owner, to)
          /\ \A to \in Accounts :
                (accumulatedFees > 0 /\ withdrawFees(owner, to)) =>
                    /\ accumulatedFees' = 0
                    /\ stack' = Append(stack, Top')
                    /\ Top'.op = "withdrawFees"
                    /\ Top'.amount = accumulatedFees
                    /\ Top'.to = to
                    /\ custody' = custody
                    /\ UNCHANGED <<markets, yesStakes, noStakes, claimed>>
          /\ withdrawFeesReturn =>
                /\ custody' = custody - Top.amount
                /\ withdrawn' = withdrawn + Top.amount
                /\ accumulatedFees' = accumulatedFees
                /\ UNCHANGED <<markets, yesStakes, noStakes, claimed>>
          /\ accumulatedFees' < accumulatedFees =>
                \/ /\ accumulatedFees' = 0
                   /\ \E to \in Accounts : withdrawFees(owner, to)
                \/ /\ stack # <<>>
                   /\ stack' = Pop
                   /\ Snapshot' = Top.snap]_vars

\* Fees have been withdrawn and the accumulator is empty again, while the
\* ledger still holds other value.
C16_Witness ==
    /\ Idle
    /\ withdrawn > 0
    /\ accumulatedFees = 0
    /\ custody > 0

(* -------------------------------- C17 --------------------------------- *)
ClaimFrames == {i \in 1..Len(stack) : stack[i].op = "claim"}

\* C17: setFee rejects every value above 1000 bps and leaves the rate as it
\* is, so the rate is at most 1000 bps in every state (200 at the start), and
\* every claim pays the caller at least payout - floor(payout * 1000 / 10000),
\* whatever setFee calls came before.
C17_FeeCeiling ==
    /\ [](/\ platformFeeBps \in 0..1000
          /\ \A bps \in FeeChoices :
                /\ bps > 1000 => \A s \in Accounts : setFeeError(s, bps) # "ok"
                /\ bps > 1000 => setFeeError(owner, bps) = "Fee too high"
                /\ bps <= 1000 => setFeeError(owner, bps) = "ok"
          /\ \A i \in ClaimFrames :
                LET p == calculatePayout(stack[i].id, stack[i].sender)
                IN /\ stack[i].amount >= p - ((p * 1000) \div 10000)
                   /\ stack[i].amount <= p)
    /\ [][/\ \/ UNCHANGED vars
             \/ \A s \in Accounts, bps \in FeeChoices :
                   ~(bps > 1000 /\ setFee(s, bps))
          /\ \A bps \in FeeChoices :
                (bps <= 1000 /\ setFee(owner, bps)) => platformFeeBps' = bps
          /\ claimReturn =>
                LET p == calculatePayout(Top.id, Top.sender)
                IN custody - custody' >= p - ((p * 1000) \div 10000)]_vars

\* The owner has raised the rate to the ceiling and a claim is being paid at
\* it, with a fee that is not 0.
C17_Witness ==
    /\ stack # <<>>
    /\ Top.op = "claim"
    /\ Top.snap.platformFeeBps = 1000
    /\ LET p == calculatePayout(Top.id, Top.sender)
       IN /\ (p * 1000) \div 10000 > 0
          /\ Top.amount = p - ((p * 1000) \div 10000)

(* -------------------------------- C18 --------------------------------- *)
\* C18: a bet (betYes / betNo, made while no bet or claim is open) is accepted
\* only if the market exists, is unresolved, now < deadline, amount >= minBet
\* and (maxBet = 0 or amount <= maxBet); when only the amount is wrong it
\* fails BetTooSmall / BetTooLarge.  An accepted bet raises custody by
\* exactly amount, raises the chosen side's pool of that market and the
\* caller's stake on that side by exactly amount, and changes nothing else:
\* no other market, account or side, no claim record, not the fee accumulator.
C18_BetFrame ==
    /\ [](\A m \in MarketKeys, x \in BetAmounts :
            LET open == /\ Exists(m)
                        /\ ~markets[m].resolved
                        /\ now < markets[m].deadline
            IN status = NOT_ENTERED =>
                 /\ betError(m, x) = "ok" <=>
                       /\ open
                       /\ x >= minBetSize
                       /\ (maxBetSize = 0 \/ x <= maxBetSize)
                 /\ (open /\ x < minBetSize) => betError(m, x) = "BetTooSmall"
                 /\ (open /\ x >= minBetSize /\ maxBetSize # 0 /\ x > maxBetSize)
                       => betError(m, x) = "BetTooLarge")
    /\ [][/\ \A a \in Accounts, m \in MarketKeys, x \in BetAmounts :
                (betError(m, x) = "ok" /\ (betYes(a, m, x) \/ betNo(a, m, x))) =>
                    /\ stack' = Append(stack, Top')
                    /\ Top'.sender = a /\ Top'.id = m /\ Top'.amount = x
                    /\ Top'.isYes = betYes(a, m, x)
                    /\ UNCHANGED <<storageVars, custody>>
          /\ placeBetReturn =>
                LET m == Top.id
                    a == Top.sender
                    x == Top.amount
                    onYes == IF Top.isYes THEN x ELSE 0
                    onNo == IF Top.isYes THEN 0 ELSE x
                IN /\ custody' = custody + x
                   /\ markets'[m] = [markets[m] EXCEPT !.yesPool = @ + onYes,
                                                      !.noPool = @ + onNo]
                   /\ yesStakes'[m][a] = yesStakes[m][a] + onYes
                   /\ noStakes'[m][a] = noStakes[m][a] + onNo
                   /\ \A b \in Accounts \ {a} :
                         /\ yesStakes'[m][b] = yesStakes[m][b]
                         /\ noStakes'[m][b] = noStakes[m][b]
                   /\ \A k \in MarketKeys \ {m} :
                         /\ markets'[k] = markets[k]
                         /\ yesStakes'[k] = yesStakes[k]
                         /\ noStakes'[k] = noStakes[k]
                   /\ UNCHANGED <<claimed, accumulatedFees, marketCount,
                                  minBetSize, maxBetSize, platformFeeBps,
                                  owner, now>>]_vars

\* Bets have been accepted on two markets, on both sides of the first.
C18_Witness ==
    /\ Idle
    /\ marketCount = 2
    /\ markets[1].yesPool > 0
    /\ markets[1].noPool > 0
    /\ totalPoolOf(2) > 0
    /\ custody = totalPoolOf(1) + totalPoolOf(2)

(* -------------------------------- C19 --------------------------------- *)
\* The state of a market record at time t: 0 not created, 1 Open, 2 Locked,
\* 3 Resolved.
Phase(mk, t) ==
    IF mk.deadline = 0 THEN 0
    ELSE IF mk.resolved THEN 3
    ELSE IF t < mk.deadline THEN 1
    ELSE 2

BetFrames == {i \in 1..Len(stack) : stack[i].op \in {"betYes", "betNo"}}

\* C19: time never goes back, and every market only moves forward through
\* Open (unresolved, now < deadline) -> Locked (unresolved, now >= deadline)
\* -> Resolved, one state at a time, from one completed transaction to the
\* next: no operation returns it to an earlier state.  A bet is accepted only
\* in Open, a claim succeeds only in Resolved, and a market is never Resolved
\* before its deadline.
C19_ForwardOnly ==
    /\ [](\A m \in MarketKeys :
            /\ markets[m].resolved => (Exists(m) /\ now >= markets[m].deadline)
            /\ \A a \in Accounts :
                  /\ claimError(a, m) = "ok" => Phase(markets[m], now) = 3
                  /\ nClaims[m][a] > 0 => Phase(markets[m], now) = 3
                  /\ \A x \in BetAmounts :
                        betError(m, x) = "ok" => Phase(markets[m], now) = 1)
    /\ [](/\ \A i \in BetFrames : Phase(markets[stack[i].id], now) = 1
          /\ \A i \in ClaimFrames : Phase(markets[stack[i].id], now) = 3)
    /\ [][/\ now' >= now
          /\ \A m \in MarketKeys :
                LET before == Phase(Committed.markets[m], now)
                    after == Phase(Committed'.markets[m], now')
                IN /\ after >= before
                   /\ after <= before + 1
                   /\ before = 3 => after = 3
          /\ placeBetReturn => Phase(markets[Top.id], now) = 1
          /\ claimReturn => Phase(markets[Top.id], now) = 3]_vars

\* A market has taken bets, passed its deadline, been resolved and paid a
\* claim.
C19_Witness ==
    \E m \in MarketIds, a \in Accounts :
        /\ Idle
        /\ Phase(markets[m], now) = 3
        /\ accepted[m] > 0
        /\ nResolved[m] = 1
        /\ nClaims[m][a] = 1

(* ---------------------------- SpecOwnership --------------------------- *)
\* The contract with the two inherited Ownable functions next to the
\* owner-gated ones, market creation and YES bets; calls come from outside.
NextOwnership ==
    \/ now < MaxTime /\ Tick
    \/ \E s \in Accounts, n \in Accounts \cup {ZeroAddress} :
          Idle /\ transferOwnership(s, n)
    \/ \E s \in Accounts : Idle /\ renounceOwnership(s)
    \/ \E s \in Accounts, q \in Questions, d \in DeadlineChoices :
          Idle /\ marketCount < MaxMarkets /\ createMarket(s, q, d)
    \/ \E s \in Accounts, m \in MarketKeys, x \in BetAmounts :
          Idle /\ nBets < MaxBets /\ betYes(s, m, x)
    \/ \E s \in Accounts, m \in MarketKeys, o \in BOOLEAN :
          Idle /\ resolveMarket(s, m, o)
    \/ \E s \in Accounts, bps \in FeeChoices : Idle /\ setFee(s, bps)
    \/ \E s \in Accounts, lim \in LimitChoices :
          Idle /\ setBetLimits(s, lim[1], lim[2])
    \/ placeBetReturn
    \/ TransferFails

SpecOwnership == Init /\ [][NextOwnership]_vars

(* -------------------------------- C20 --------------------------------- *)
\* C20 as stated: the owner is the deployer in every reachable state.
C20_Original == owner = Deployer

\* C20, amended: the owner is the deployer at construction and changes only
\* when the current owner calls transferOwnership(newOwner) with a newOwner
\* other than the zero address (the owner becomes newOwner) or
\* renounceOwnership() (the owner becomes the zero address).  Calls of the
\* two by anyone else, and transferOwnership to the zero address, fail and
\* change nothing; no other operation writes the owner; once the owner is the
\* zero address it stays so and every owner-gated call fails.
C20_OwnerChangesOnlyByOwner ==
    /\ [](/\ owner \in Accounts \cup {ZeroAddress}
          /\ owner = ZeroAddress =>
                \A s \in Accounts : onlyOwnerError(s) = Unauthorized
          /\ \A s \in Accounts \ {owner}, n \in Accounts \cup {ZeroAddress} :
                /\ transferOwnershipError(s, n) = Unauthorized
                /\ renounceOwnershipError(s) = Unauthorized
          /\ owner \in Accounts =>
                transferOwnershipError(owner, ZeroAddress) = "OwnableInvalidOwner")
    /\ [][/\ owner' # owner =>
                \/ owner' # ZeroAddress /\ transferOwnership(owner, owner')
                \/ owner' = ZeroAddress /\ renounceOwnership(owner)
          /\ owner = ZeroAddress => owner' = ZeroAddress
          /\ \/ UNCHANGED vars
             \/ /\ \A s \in Accounts : ~transferOwnership(s, ZeroAddress)
                /\ \A s \in Accounts \ {owner} :
                      /\ ~renounceOwnership(s)
                      /\ \A n \in Accounts : ~transferOwnership(s, n)]_vars

\* The deployer has handed the contract over, and the new owner has used an
\* owner-gated function.
C20_Witness ==
    /\ owner \in Accounts \ {Deployer}
    /\ platformFeeBps # InitialFeeBps
    /\ setFeeError(Deployer, InitialFeeBps) = Unauthorized

(* -------------------------------- C21 --------------------------------- *)
\* C21: claim sets the caller's claim record and adds the fee to the
\* accumulator before the transfer of the user share starts.  So while the
\* transfer of a claim is under way (and in every call nested in it) the
\* record is true, custody has not yet moved, and a claim by the same caller
\* on the same market fails the body's own AlreadyClaimed check, lock or no
\* lock (with the lock, the lock's error comes first).
C21_RecordBeforeTransfer ==
    /\ [](\A i \in ClaimFrames :
            LET f == stack[i]
            IN /\ claimed[f.id][f.sender]
               /\ ~f.snap.claimed[f.id][f.sender]
               /\ claimChecksError(f.sender, f.id) = "AlreadyClaimed"
               /\ claimError(f.sender, f.id) = "ReentrancyGuardReentrantCall")
    /\ [](\A m \in MarketKeys, a \in Accounts :
            status = NOT_ENTERED => claimError(a, m) = claimChecksError(a, m))
    /\ [][\A m \in MarketKeys, a \in Accounts :
            (claimError(a, m) = "ok" /\ claim(a, m)) =>
                /\ claimed'[m][a]
                /\ accumulatedFees'
                     = accumulatedFees + feeOf(calculatePayout(m, a))
                /\ custody' = custody
                /\ Len(stack') = Len(stack) + 1]_vars

\* The transfer of a claim is under way, nothing has left custody yet, and
\* custody holds enough for the same payout a second time.
C21_Witness ==
    /\ Len(stack) = 1
    /\ Top.op = "claim"
    /\ custody = Top.snap.custody
    /\ accumulatedFees > Top.snap.accumulatedFees
    /\ Top.amount > 0
    /\ custody >= 2 * Top.amount

(* -------------------------------- C22 --------------------------------- *)
\* A call is reverted: the state goes back to where that call started.
IsRevert == stack # <<>> /\ stack' = Pop /\ Snapshot' = Top.snap

\* C22: the stake recorded for a (market, account, side) is 0 until the first
\* bet for that key is accepted, grows by exactly the amount of every bet
\* accepted for that key and by nothing else, and no operation lowers it: from
\* one completed transaction to the next it never decreases (a step that
\* lowers it is the revert of a call).  claim leaves it as it is, so
\* calculatePayout gives the same non-zero value before and after the
\* account's claim.
C22_StakesOnlyGrow ==
    /\ [](\A m \in MarketKeys, a \in Accounts :
            /\ yesStakes[m][a] >= 0 /\ noStakes[m][a] >= 0
            /\ (nBets = 0 \/ ~Exists(m)) =>
                  (yesStakes[m][a] = 0 /\ noStakes[m][a] = 0)
            /\ nClaims[m][a] > 0 => calculatePayout(m, a) > 0)
    /\ [][\/ UNCHANGED <<yesStakes, noStakes, stack>>
          \/ LET before == Committed
                 after == Committed'
             IN \A m \in MarketKeys, a \in Accounts :
                    /\ after.yesStakes[m][a] >= before.yesStakes[m][a]
                    /\ after.noStakes[m][a] >= before.noStakes[m][a]]_vars
    /\ [][\A m \in MarketKeys, a \in Accounts :
            /\ yesStakes'[m][a] # yesStakes[m][a] =>
                  \/ /\ placeBetReturn
                     /\ Top.id = m /\ Top.sender = a /\ Top.isYes
                     /\ yesStakes'[m][a] = yesStakes[m][a] + Top.amount
                  \/ IsRevert
            /\ noStakes'[m][a] # noStakes[m][a] =>
                  \/ /\ placeBetReturn
                     /\ Top.id = m /\ Top.sender = a /\ ~Top.isYes
                     /\ noStakes'[m][a] = noStakes[m][a] + Top.amount
                  \/ IsRevert
            /\ ((claimError(a, m) = "ok" /\ claim(a, m))
                  \/ (claimReturn /\ Top.id = m /\ Top.sender = a)) =>
                  /\ UNCHANGED <<yesStakes, noStakes>>
                  /\ calculatePayout(m, a)' = calculatePayout(m, a)
                  /\ calculatePayout(m, a) > 0]_vars

\* An account that staked on both sides has claimed, and both stakes are
\* still recorded.
C22_Witness ==
    \E m \in MarketIds, a \in Accounts :
        /\ Idle
        /\ nClaims[m][a] = 1
        /\ yesStakes[m][a] > 0
        /\ noStakes[m][a] > 0
        /\ calculatePayout(m, a) > 0

(* -------------------------------- C23 --------------------------------- *)
\* C23: the deadline (and question) a market is created with is strictly
\* after the time of creation and no operation changes it afterwards; yesPool
\* and noPool never decrease, and once the market is resolved they (and the
\* whole market record) never change again, so calculatePayout of every
\* account is constant after resolution.  Stated for every step that is not
\* the revert of a call, and from one completed transaction to the next.
C23_MarketRecordStable ==
    /\ [][\/ UNCHANGED <<markets, stack>>
          \/ LET before == Committed
                 after == Committed'
             IN \A m \in MarketKeys :
                    LET b == before.markets[m]
                        a == after.markets[m]
                    IN /\ b.deadline # 0 =>
                             /\ a.deadline = b.deadline
                             /\ a.question = b.question
                             /\ a.yesPool >= b.yesPool
                             /\ a.noPool >= b.noPool
                       /\ b.resolved => a = b]_vars
    /\ [][\/ UNCHANGED <<markets, yesStakes, noStakes>>
          \/ IsRevert
          \/ \A m \in MarketKeys :
                /\ Exists(m) =>
                      /\ markets'[m].deadline = markets[m].deadline
                      /\ markets'[m].question = markets[m].question
                      /\ markets'[m].yesPool >= markets[m].yesPool
                      /\ markets'[m].noPool >= markets[m].noPool
                /\ markets[m].resolved =>
                      /\ markets'[m] = markets[m]
                      /\ \A a \in Accounts :
                            calculatePayout(m, a)' = calculatePayout(m, a)
                /\ (~Exists(m) /\ markets'[m].deadline # 0) =>
                      /\ markets'[m].deadline > now
                      /\ \E s \in Accounts :
                            createMarket(s, markets'[m].question,
                                         markets'[m].deadline)]_vars

\* A resolved market with both pools filled, after claims and a fee
\* withdrawal have run on it.
C23_Witness ==
    \E m \in MarketIds :
        /\ Idle
        /\ markets[m].resolved
        /\ markets[m].yesPool > 0
        /\ markets[m].noPool > 0
        /\ markets[m].deadline <= now
        /\ paidOut[m] > 0
        /\ withdrawn > 0

(* ----------------------------- SpecEscrow ----------------------------- *)
\* SpecFlat with the fee withdrawal: up to MaxMarketsFlat markets, every call
\* made from outside, and the owner may withdraw the accumulated fees.
NextEscrow ==
    \/ now < MaxTime /\ Tick
    \/ \E s \in Accounts, q \in Questions, d \in DeadlineChoices :
          Idle /\ marketCount < MaxMarketsFlat /\ createMarket(s, q, d)
    \/ \E s \in Accounts, m \in MarketKeys, x \in BetAmounts :
          Idle /\ nBets < MaxBets /\ betYes(s, m, x)
    \/ \E s \in Accounts, m \in MarketKeys, x \in BetAmounts :
          Idle /\ nBets < MaxBets /\ betNo(s, m, x)
    \/ \E s \in Accounts, m \in MarketKeys, o \in BOOLEAN :
          Idle /\ resolveMarket(s, m, o)
    \/ \E s \in Accounts, m \in MarketKeys : Idle /\ claim(s, m)
    \/ \E s \in Accounts, to \in Accounts : Idle /\ withdrawFees(s, to)
    \/ \E s \in Accounts, lim \in LimitChoices :
          Idle /\ setBetLimits(s, lim[1], lim[2])
    \/ placeBetReturn
    \/ claimReturn
    \/ withdrawFeesReturn
    \/ TransferFails

SpecEscrow == Init /\ [][NextEscrow]_vars

(* -------------------------------- C25 --------------------------------- *)
\* A market resolved to a side nobody staked on, while the other side holds
\* stakes.
Stuck(m) ==
    markets[m].resolved /\ winningPoolOf(m) = 0 /\ totalPoolOf(m) > 0

\* What a market's bets brought in and no claim has paid out or turned into
\* fees.
Retained(m) == accepted[m] - paidOut[m] - feesAccrued[m]

Retaineds == Sum([m \in MarketKeys |-> Retained(m)], MarketKeys)

\* C25: once a market is resolved to a side whose pool is 0 while the other
\* pool is not, every claim on it by every account fails NoWinnings, in every
\* later state; it never pays out and never accrues a fee, and the market
\* stays as it is.  Whatever else happens (claims on other markets,
\* withdrawFees, further resolveMarket, bets, admin calls), the whole pool of
\* such a market, and the rounding dust of every resolved market, stays in the
\* token balance and outside the fee accumulator: between calls the balance
\* is the fee accumulator plus what each market retains, a market retains at
\* least its residue, and during a call the balance covers the started
\* transfers, the fee accumulator and all residues.
C25_StuckFundsStay ==
    /\ [](\A m \in MarketKeys :
            /\ Stuck(m) =>
                  /\ \A a \in Accounts :
                        /\ claimChecksError(a, m) = "NoWinnings"
                        /\ claimError(a, m) # "ok"
                        /\ nClaims[m][a] = 0
                  /\ paidOut[m] = 0
                  /\ feesAccrued[m] = 0
                  /\ Residue(m) = totalPoolOf(m)
                  /\ Retained(m) = totalPoolOf(m)
            /\ markets[m].resolved => /\ Residue(m) >= 0
                                       /\ Retained(m) >= Residue(m))
    /\ [](/\ Idle => custody = accumulatedFees + Retaineds
          /\ custody - PendingOut >= accumulatedFees + Residues)
    /\ [][\/ UNCHANGED <<markets, yesStakes, noStakes>>
          \/ \A m \in MarketKeys :
                /\ Stuck(m) => Stuck(m)' /\ markets'[m] = markets[m]
                /\ markets[m].resolved => Residue(m)' = Residue(m)]_vars

\* One market is stuck, and on another market a winner has been paid and the
\* fees withdrawn: the balance is exactly the stuck market's pool.
C25_Witness ==
    \E m \in MarketKeys, k \in MarketKeys :
        /\ Idle
        /\ Stuck(m)
        /\ paidOut[k] > 0
        /\ withdrawn > 0
        /\ accumulatedFees = 0
        /\ custody = totalPoolOf(m)
        /\ \E a \in Accounts : nClaims[k][a] > 0

(* ---------------------- the web client: helpers ---------------------- *)
\* Everything of the contract and the token: the client's steps only read it.
chainVars == <<now, owner, status, storageVars, custody, stack, historyVars>>

RemoveAt(s, k) == SubSeq(s, 1, k - 1) \o SubSeq(s, k + 1, Len(s))

Reverse(s) == [k \in 1..Len(s) |-> s[Len(s) + 1 - k]]

(* -------------------- the web client: useMarketsList ------------------ *)
\* The decimals of the token amounts the hook formats.
TOKEN_DECIMALS == 6

\* formatUnits(value, decimals) read by parseFloat: the whole units and the
\* remaining fraction, in 10^-decimals.
formatUnits(value, decimals) ==
    <<value \div (10 ^ decimals), value % (10 ^ decimals)>>

\* What both versions of the hook make of getMarket(i)'s result: the record
\* they push.  Date.now() is the chain's time in milliseconds.
OnChainMarket(i) ==
    LET data == getMarket(i)
        deadlineMs == data[2] * 1000
    IN [id |-> i, question |-> data[1], deadline |-> deadlineMs,
        resolved |-> data[3], outcomeYes |-> data[4],
        yesPool |-> formatUnits(data[5], TOKEN_DECIMALS),
        noPool |-> formatUnits(data[6], TOKEN_DECIMALS),
        status |-> IF data[3] THEN "resolved"
                   ELSE IF now * 1000 > deadlineMs THEN "locked" ELSE "open"]

\* A run of the fetch function: its locals (count, i, fetchedMarkets), and,
\* as history, the identifiers it tried and those it read successfully.
NewRun(pc, count) ==
    [pc |-> pc, count |-> count, i |-> 1, fetchedMarkets |-> <<>>,
     tried |-> {}, readOk |-> {}]

\* fetchedMarkets.sort((a, b) => b.id - a.id)
RECURSIVE SortByIdDescending(_)
SortByIdDescending(s) ==
    IF s = <<>> THEN <<>>
    ELSE LET k == CHOOSE j \in 1..Len(s) :
                      /\ \A l \in 1..Len(s) : s[l].id <= s[j].id
                      /\ \A l \in 1..(j - 1) : s[l].id < s[j].id
         IN <<s[k]>> \o SortByIdDescending(RemoveAt(s, k))

\* fetchAllMarkets up to the count read: without a client or a configured
\* contract the list is emptied and loading ends; otherwise loading starts.
fetchAllMarketsStart(ready) ==
    /\ listing.hook = "publicClient"
    /\ IF ~ready
       THEN /\ listing' = [listing EXCEPT !.markets = <<>>, !.isLoading = FALSE]
            /\ runs' = runs
       ELSE /\ listing' = [listing EXCEPT !.isLoading = TRUE]
            /\ runs' = Append(runs, NewRun("count", 0))
    /\ UNCHANGED <<chainVars, store, queue, returned>>

\* readContract(marketCount): a failure goes to the outer catch and finally;
\* a count of 0 empties the list and returns through finally.
readMarketCount(k, ok) ==
    /\ k \in 1..Len(runs)
    /\ runs[k].pc = "count"
    /\ IF ~ok
       THEN /\ listing' = [listing EXCEPT !.isLoading = FALSE]
            /\ runs' = RemoveAt(runs, k)
       ELSE IF marketCount = 0
       THEN /\ listing' = [listing EXCEPT !.marketCount = 0, !.markets = <<>>,
                                          !.isLoading = FALSE]
            /\ runs' = RemoveAt(runs, k)
       ELSE /\ listing' = [listing EXCEPT !.marketCount = marketCount]
            /\ runs' = [runs EXCEPT ![k].pc = "loop", ![k].count = marketCount]
    /\ UNCHANGED <<chainVars, store, queue, returned>>

\* One turn of the loop of fetchAllMarkets: readContract(getMarket, i), the
\* push on success, the catch that only logs on failure, and i++.
readGetMarket(k, ok) ==
    /\ listing.hook = "publicClient"
    /\ k \in 1..Len(runs)
    /\ runs[k].pc = "loop"
    /\ runs[k].i <= runs[k].count
    /\ runs' = [runs EXCEPT
                  ![k].fetchedMarkets =
                      IF ok THEN Append(@, OnChainMarket(runs[k].i)) ELSE @,
                  ![k].readOk = IF ok THEN @ \cup {runs[k].i} ELSE @,
                  ![k].tried = @ \cup {runs[k].i},
                  ![k].i = @ + 1]
    /\ UNCHANGED <<chainVars, listing, store, queue, returned>>

\* Mutant of fetchAllMarketsEnd: the list is not sorted.
fetchAllMarketsEndUnsorted(k) ==
    /\ listing.hook = "publicClient"
    /\ k \in 1..Len(runs)
    /\ runs[k].pc = "loop"
    /\ runs[k].i > runs[k].count
    /\ listing' = [listing EXCEPT !.markets = runs[k].fetchedMarkets,
                                  !.isLoading = FALSE]
    /\ runs' = RemoveAt(runs, k)
    /\ UNCHANGED <<chainVars, store, queue, returned>>

\* After the loop of fetchAllMarkets: sort, setMarkets, and finally.
fetchAllMarketsEnd(k) ==
    /\ listing.hook = "publicClient"
    /\ k \in 1..Len(runs)
    /\ runs[k].pc = "loop"
    /\ runs[k].i > runs[k].count
    /\ listing' = [listing EXCEPT
                     !.markets = SortByIdDescending(runs[k].fetchedMarkets),
                     !.isLoading = FALSE]
    /\ runs' = RemoveAt(runs, k)
    /\ UNCHANGED <<chainVars, store, queue, returned>>

\* The hook's refetch: it only sets isLoading.
refetch ==
    /\ listing.hook = "publicClient"
    /\ listing' = [listing EXCEPT !.isLoading = TRUE]
    /\ UNCHANGED <<chainVars, runs, store, queue, returned>>

\* fetchMarkets up to the loop, run by the effect when useReadContract's
\* marketCount (data) changes: without a configured contract or a non-zero
\* count the list is emptied and loading ends; otherwise loading starts.
fetchMarketsStart(configured, data) ==
    /\ listing.hook = "fetch"
    /\ IF ~configured \/ data = 0
       THEN /\ listing' = [listing EXCEPT !.marketCount = data,
                                          !.markets = <<>>, !.isLoading = FALSE]
            /\ runs' = runs
       ELSE /\ listing' = [listing EXCEPT !.marketCount = data,
                                          !.isLoading = TRUE]
            /\ runs' = Append(runs, NewRun("loop", data))
    /\ UNCHANGED <<chainVars, store, queue, returned>>

\* What one eth_call of fetchMarkets can come to: fetch or response.json()
\* throws, the response has no result or "0x", decodeMarketResult returns
\* null, or the record is decoded.
FetchOutcomes == {"ok", "throws", "empty", "undecodable"}

\* One turn of the loop of fetchMarkets.
fetchGetMarket(k, outcome) ==
    /\ listing.hook = "fetch"
    /\ k \in 1..Len(runs)
    /\ runs[k].pc = "loop"
    /\ runs[k].i <= runs[k].count
    /\ runs' = [runs EXCEPT
                  ![k].fetchedMarkets =
                      IF outcome = "ok"
                      THEN Append(@, OnChainMarket(runs[k].i)) ELSE @,
                  ![k].readOk = IF outcome = "ok" THEN @ \cup {runs[k].i} ELSE @,
                  ![k].tried = @ \cup {runs[k].i},
                  ![k].i = @ + 1]
    /\ UNCHANGED <<chainVars, listing, store, queue, returned>>

\* After the loop of fetchMarkets: reverse, setMarkets, and finally.
fetchMarketsEnd(k) ==
    /\ listing.hook = "fetch"
    /\ k \in 1..Len(runs)
    /\ runs[k].pc = "loop"
    /\ runs[k].i > runs[k].count
    /\ listing' = [listing EXCEPT !.markets = Reverse(runs[k].fetchedMarkets),
                                  !.isLoading = FALSE]
    /\ runs' = RemoveAt(runs, k)
    /\ UNCHANGED <<chainVars, store, queue, returned>>

(* ----------------------------- SpecListing ---------------------------- *)
\* Runs of the hook that may be in flight at once (the interval of
\* fetchAllMarkets and the effect of fetchMarkets do not wait for a run).
MaxRuns == 2

\* Markets are created on the chain while either version of the hook lists
\* them.
InitListing == InitChain /\ NoStore /\ \E h \in Hooks : MountedListing(h)

NextListing ==
    \/ now < MaxTime /\ Tick
    \/ \E s \in Accounts, q \in Questions, d \in DeadlineChoices :
          Idle /\ marketCount < MaxMarketsFlat /\ createMarket(s, q, d)
    \/ \E ready \in BOOLEAN : Len(runs) < MaxRuns /\ fetchAllMarketsStart(ready)
    \/ \E k \in 1..MaxRuns, ok \in BOOLEAN : readMarketCount(k, ok)
    \/ \E k \in 1..MaxRuns, ok \in BOOLEAN : readGetMarket(k, ok)
    \/ \E k \in 1..MaxRuns : fetchAllMarketsEnd(k)
    \/ refetch
    \/ \E configured \in BOOLEAN, data \in 0..MaxMarketsFlat :
          Len(runs) < MaxRuns /\ data <= marketCount
          /\ fetchMarketsStart(configured, data)
    \/ \E k \in 1..MaxRuns, outcome \in FetchOutcomes : fetchGetMarket(k, outcome)
    \/ \E k \in 1..MaxRuns : fetchMarketsEnd(k)

SpecListing == InitListing /\ [][NextListing]_vars

(* -------------------------------- C24 --------------------------------- *)
\* The identifiers of a list of markets, in the list's order.
Ids(s) == [k \in 1..Len(s) |-> s[k].id]

\* The identifiers of S, each once, highest first.
RECURSIVE Descending(_)
Descending(S) ==
    IF S = {} THEN <<>>
    ELSE LET top == CHOOSE x \in S : \A y \in S : y <= x
         IN <<top>> \o Descending(S \ {top})

\* Run k has tried every identifier of 1..count.
LoopDone(k) ==
    k \in 1..Len(runs) /\ runs[k].pc = "loop" /\ runs[k].i > runs[k].count

\* C24: a run of the listing tries the identifiers 1, 2, ..., count in turn,
\* whatever each read comes to: an identifier whose read or decoding fails is
\* skipped and the next one is tried.  When the run ends having tried all of
\* 1..count, the list it sets holds exactly the identifiers it read
\* successfully, each once, highest first; and whenever a run ends, with or
\* without failures, isLoading is false.
C24_ListingSkipsFailures ==
    /\ [](\A k \in 1..Len(runs) :
            LET r == runs[k]
            IN /\ r.i \in 1..(r.count + 1)
               /\ r.pc = "loop" => /\ r.count \in 1..marketCount
                                   /\ r.tried = 1..(r.i - 1)
               /\ r.readOk \subseteq r.tried
               /\ Ids(r.fetchedMarkets) = Reverse(Descending(r.readOk)))
    /\ [][\/ UNCHANGED runs
          \/ /\ Len(runs') < Len(runs) => ~listing'.isLoading
             /\ \A k \in 1..MaxRuns :
                   (LoopDone(k) /\ runs' = RemoveAt(runs, k)) =>
                      /\ runs[k].tried = 1..runs[k].count
                      /\ Ids(listing'.markets) = Descending(runs[k].readOk)
                      /\ \A j \in 1..Len(listing'.markets) :
                            listing'.markets[j] \in
                               {runs[k].fetchedMarkets[l] :
                                  l \in 1..Len(runs[k].fetchedMarkets)}]_vars

\* A run over two markets has ended in which the first read failed and the
\* second succeeded: the list is the second market alone and loading is over.
C24_Witness ==
    /\ marketCount = 2
    /\ runs = <<>>
    /\ Ids(listing.markets) = <<2>>
    /\ ~listing.isLoading
    /\ listing.hook = "publicClient"

(* -------------------- the web client: MarketsProvider ------------------ *)
\* React keeps the state updates a handler sets in a queue and applies them,
\* in order, at the next render; until then every handler reads the state of
\* the latest render, which its closure captured.  `store` is that state and
\* `queue` the updates set since; one entry holds the updates of one call.
\* markets.find(m => m.id === marketId): the positions that match.
FindMarket(marketId) ==
    {k \in 1..Len(store.markets) : store.markets[k].id = marketId}

\* The updates addBet sets: the pool of the side grows; if the captured
\* markets hold the market, the bet is prepended, the balance is lowered by
\* the stake, and a 'bet' entry with the captured balance less the stake is
\* appended.
ApplyAddBet(st, u) ==
    LET grown(m) ==
            IF m.id = u.marketId
            THEN [m EXCEPT
                    !.yesPool = IF u.side = "yes" THEN @ + u.stake \div USDC ELSE @,
                    !.noPool = IF u.side = "no" THEN @ + u.stake \div USDC ELSE @]
            ELSE m
        newBet == [marketId |-> u.marketId, side |-> u.side, stake |-> u.stake,
                   status |-> "open", payout |-> 0, claimed |-> FALSE]
    IN IF u.found
       THEN [st EXCEPT
               !.markets = [k \in 1..Len(@) |-> grown(@[k])],
               !.userBets = <<newBet>> \o @,
               !.portfolioBalance = @ - u.stake,
               !.portfolioHistory =
                   Append(@, [balance |-> u.balance - u.stake, action |-> "bet",
                              amount |-> -u.stake, marketId |-> u.marketId])]
       ELSE [st EXCEPT !.markets = [k \in 1..Len(@) |-> grown(@[k])]]

\* Math.round(((stake / winningPool) * totalPool) * 100) / 100: the stake
\* and the result in hundredths, the pools in USDC.
RoundedPayout(stake, winningPool, totalPool) ==
    (2 * stake * totalPool + winningPool) \div (2 * winningPool)

\* The updates resolveMarket sets: the market becomes resolved with the
\* outcome, and each open bet on it becomes won or lost, a won bet's payout
\* computed from the pools of the captured market.
ApplyResolveMarket(st, u) ==
    LET resolvedMarket(m) ==
            IF m.id = u.marketId
            THEN [m EXCEPT !.status = "resolved", !.outcomeYes = u.outcomeYes]
            ELSE m
        settled(bet) ==
            IF bet.marketId = u.marketId /\ bet.status = "open"
            THEN LET won == \/ bet.side = "yes" /\ u.outcomeYes
                            \/ bet.side = "no" /\ ~u.outcomeYes
                 IN [bet EXCEPT
                       !.status = IF won THEN "won" ELSE "lost",
                       !.payout = IF won
                                  THEN RoundedPayout(bet.stake, u.winningPool,
                                                     u.totalPool)
                                  ELSE 0]
            ELSE bet
    IN [st EXCEPT !.markets = [k \in 1..Len(@) |-> resolvedMarket(@[k])],
                  !.userBets = [k \in 1..Len(@) |-> settled(@[k])]]

\* The updates claimWinnings sets: every won, unclaimed bet on the market is
\* marked claimed, the balance is set to the value the call computed, and a
\* 'claim' entry is appended.
ApplyClaimWinnings(st, u) ==
    LET marked(bet) ==
            IF bet.marketId = u.marketId /\ bet.status = "won" /\ ~bet.claimed
            THEN [bet EXCEPT !.claimed = TRUE]
            ELSE bet
    IN [st EXCEPT
          !.userBets = [k \in 1..Len(@) |-> marked(@[k])],
          !.portfolioBalance = u.newBalance,
          !.portfolioHistory =
              Append(@, [balance |-> u.newBalance, action |-> "claim",
                         amount |-> u.payout, marketId |-> u.marketId])]

Apply(st, u) ==
    IF u.op = "addBet" THEN ApplyAddBet(st, u)
    ELSE IF u.op = "resolveMarket" THEN ApplyResolveMarket(st, u)
    ELSE ApplyClaimWinnings(st, u)

RECURSIVE ApplyAll(_, _)
ApplyAll(st, q) ==
    IF q = <<>> THEN st ELSE ApplyAll(Apply(st, Head(q)), Tail(q))

\* The store renders again: the queued updates are applied in order, and the
\* handlers made by this render capture the new state.
render ==
    /\ queue # <<>>
    /\ store' = ApplyAll(store, queue)
    /\ queue' = <<>>
    /\ UNCHANGED <<chainVars, listing, runs, returned>>

addBet(marketId, side, stake) ==
    /\ queue' = Append(queue, [op |-> "addBet", marketId |-> marketId,
                               side |-> side, stake |-> stake,
                               found |-> FindMarket(marketId) # {},
                               balance |-> store.portfolioBalance])
    /\ UNCHANGED <<chainVars, listing, runs, store, returned>>

\* The demo store's resolveMarket; it throws when the captured markets do
\* not hold the market, and does not look at the market's status.
demoResolveMarket(marketId, outcomeYes) ==
    /\ IF FindMarket(marketId) = {}
       THEN queue' = queue
       ELSE LET market == store.markets[CHOOSE k \in FindMarket(marketId) :
                                            \A l \in FindMarket(marketId) : k <= l]
            IN queue' = Append(queue,
                   [op |-> "resolveMarket", marketId |-> marketId,
                    outcomeYes |-> outcomeYes,
                    totalPool |-> market.yesPool + market.noPool,
                    winningPool |-> IF outcomeYes THEN market.yesPool
                                    ELSE market.noPool])
    /\ UNCHANGED <<chainVars, listing, runs, store, returned>>

\* userBets.find(...): the positions of the captured userBets that hold a
\* won bet on the market with a payout, not claimed.
WinningBets(marketId) ==
    {k \in 1..Len(store.userBets) :
        LET bet == store.userBets[k]
        IN /\ bet.marketId = marketId
           /\ bet.status = "won"
           /\ bet.payout > 0
           /\ ~bet.claimed}

claimWinnings(marketId) ==
    /\ IF WinningBets(marketId) = {}
       THEN /\ queue' = queue
            /\ returned' = Append(returned, [marketId |-> marketId, payout |-> 0,
                                             claimed |-> FALSE])
       ELSE LET winningBet == store.userBets[CHOOSE k \in WinningBets(marketId) :
                                  \A l \in WinningBets(marketId) : k <= l]
                payout == winningBet.payout
                newBalance == store.portfolioBalance + payout
            IN /\ queue' = Append(queue,
                      [op |-> "claimWinnings", marketId |-> marketId,
                       payout |-> payout, newBalance |-> newBalance])
               /\ returned' = Append(returned, [marketId |-> marketId,
                                                payout |-> payout,
                                                claimed |-> TRUE])
    /\ UNCHANGED <<chainVars, listing, runs, store>>

(* ------------------------------ SpecStore ----------------------------- *)
\* Calls that may be made between two renders, claimWinnings calls in all,
\* and bets added to the initial ones.
MaxPending == 2
MaxClaimCalls == 3
MaxNewBets == 1

\* The markets the calls name: a resolved one with a won bet and one ready
\* to resolve with an open bet; resolveMarket is also called for a market the
\* store does not hold.
DemoMarketChoices == {4, 6}
UnknownMarkets == {7}
DemoStakes == {100 * USDC}

\* The addBet calls whose updates wait for the next render.
QueuedBets == {j \in 1..Len(queue) : queue[j].op = "addBet"}

InitStore == InitChain /\ NoListing /\ MountedStore

NextStore ==
    \/ \E m \in DemoMarketChoices, side \in {"yes", "no"}, x \in DemoStakes :
          /\ Len(queue) < MaxPending
          /\ Len(store.userBets) + Cardinality(QueuedBets)
                < Len(INITIAL_BETS) + MaxNewBets
          /\ addBet(m, side, x)
    \/ \E m \in DemoMarketChoices \cup UnknownMarkets, o \in BOOLEAN :
          Len(queue) < MaxPending /\ demoResolveMarket(m, o)
    \/ \E m \in DemoMarketChoices :
          /\ Len(queue) < MaxPending
          /\ Len(returned) < MaxClaimCalls
          /\ claimWinnings(m)
    \/ render

SpecStore == InitStore /\ [][NextStore]_vars

(* -------------------------------- C26 --------------------------------- *)
\* The claimWinnings calls on market m that returned claimed: true.
ClaimedTrue(m) ==
    {k \in 1..Len(returned) : returned[k].marketId = m /\ returned[k].claimed}

\* The 'claim' entries of market m in a portfolio history.
ClaimEntries(h, m) ==
    {k \in 1..Len(h) : h[k].action = "claim" /\ h[k].marketId = m}

\* The user's bets are the initial ones, one per market: no bet has been
\* added.
OnlyInitialBets ==
    /\ Len(store.userBets) = Len(INITIAL_BETS)
    /\ \A j \in 1..Len(queue) : queue[j].op # "addBet"

\* C26 as stated, for a market with one bet: whatever the interleaving of
\* claimWinnings calls for the market, at most one of them returns
\* claimed: true, exactly one 'claim' entry is appended to the history for a
\* claimed bet, and the balance has risen by the payout exactly once.
C26_Original ==
    OnlyInitialBets =>
        \A m \in DemoMarketChoices :
            /\ Cardinality(ClaimedTrue(m)) <= 1
            /\ queue = <<>> =>
                  Cardinality(ClaimEntries(store.portfolioHistory, m))
                     - Cardinality(ClaimEntries(INITIAL_PORTFOLIO_HISTORY, m))
                  = Cardinality(ClaimedTrue(m))
            /\ (/\ queue = <<>>
                /\ ClaimedTrue(m) # {}
                /\ \A k \in 1..Len(returned) :
                      returned[k].claimed => returned[k].marketId = m) =>
                  store.portfolioBalance
                     = INITIAL_PORTFOLIO_BALANCE
                         + returned[CHOOSE k \in ClaimedTrue(m) : TRUE].payout

\* What the code does: two claimWinnings calls for market 4 made before the
\* store renders both return claimed: true with the payout, and after the
\* render the history holds two new 'claim' entries for the market, while
\* the balance has risen by the payout once.
C26_Witness ==
    /\ OnlyInitialBets
    /\ queue = <<>>
    /\ Cardinality(ClaimedTrue(4)) = 2
    /\ Cardinality(ClaimEntries(store.portfolioHistory, 4))
          = Cardinality(ClaimEntries(INITIAL_PORTFOLIO_HISTORY, 4)) + 2
    /\ store.portfolioBalance = INITIAL_PORTFOLIO_BALANCE + 52 * USDC

====
